---- MODULE Spec2Model ----
(***************************************************************************)
(* The experiment queue of the bioreactor hub: QueueManager                *)
(* (bioreactor-hub/src/queue_manager.py), the queue_worker thread and the  *)
(* request handlers (bioreactor-hub/src/main.py), and the persisted queue  *)
(* file.                                                                   *)
(*                                                                         *)
(* Representation.  An Optional value is None (the empty sequence) or      *)
(* Some(x) (a one-element sequence).  A datetime is a number of hours.     *)
(* An ExperimentStatus member is written by its name ("QUEUED"); its value *)
(* ("queued") is what to_dict writes to the file.  An ISO-8601 string is   *)
(* the triple <<"T", days, hours>> of its date and its time of day.  A     *)
(* JSON value of the file is <<"null">>, <<"string", s>> or                *)
(* <<"number", n>>.                                                        *)
(***************************************************************************)
EXTENDS Integers, Sequences, FiniteSets, TLC

\* ------------------------------------------------------------------ bounds
\* Number of experiment ids (uuid4 values) the model ever issues.
MaxJobs == 3
\* Number of times the clock advances.
MaxTicks == 2
\* Number of submissions in the specifications whose clock advances.
MaxTimedJobs == 2
\* Hours the clock advances by in one step.
TickHours == 24
\* Ids the node is asked to run.
MaxNodeIds == 1
\* run_experiment_container threads the node starts between two restarts.
MaxThreads == 2
\* max_polls of forward_experiment (1800 in the source), instantiated small so
\* that a run can reach it.
max_polls == 3
\* QueueManager.max_experiments_per_user: an instance attribute (default 5),
\* instantiated small so that a submitter can reach it within MaxJobs.
max_experiments_per_user == 2

\* ------------------------------------------------------- program constants
\* timedelta(hours=24) of _cleanup_old_experiments.
RETENTION_HOURS == 24
\* poll_interval of forward_experiment, in seconds.
poll_interval == 2

Ids == 1..MaxJobs
Users == {"u1", "u2"}
Scripts == {"print(1)"}
Positions == (-1)..MaxJobs

None == <<>>
Some(x) == <<x>>

\* ------------------------------------------------------- ExperimentStatus
StatusMembers == {"QUEUED", "RUNNING", "COMPLETED", "FAILED", "CANCELLED", "PAUSED"}

StatusValue(m) ==
  CASE m = "QUEUED" -> "queued"
    [] m = "RUNNING" -> "running"
    [] m = "COMPLETED" -> "completed"
    [] m = "FAILED" -> "failed"
    [] m = "CANCELLED" -> "cancelled"
    [] m = "PAUSED" -> "paused"

\* ExperimentStatus(value): the member with that value.
StatusOfValue(v) == CHOOSE m \in StatusMembers : StatusValue(m) = v

TerminalStatuses == {"COMPLETED", "FAILED", "CANCELLED"}
ActiveStatuses == {"QUEUED", "RUNNING", "PAUSED"}

\* ------------------------------------------------------------ list helpers
\* list.remove(x): drops the first occurrence of x.
RECURSIVE ListRemove(_, _)
ListRemove(s, x) ==
  IF s = <<>> THEN <<>>
  ELSE IF Head(s) = x THEN Tail(s)
  ELSE <<Head(s)>> \o ListRemove(Tail(s), x)

\* list.insert(i, x) for 0 <= i <= len(s).
ListInsert(s, i, x) == SubSeq(s, 1, i) \o <<x>> \o SubSeq(s, i + 1, Len(s))

\* [x for x in s if P(x)]
RECURSIVE ListFilter(_, _)
ListFilter(s, keep) ==
  IF s = <<>> THEN <<>>
  ELSE IF Head(s) \in keep THEN <<Head(s)>> \o ListFilter(Tail(s), keep)
  ELSE ListFilter(Tail(s), keep)

\* list.index(x), 0-based; -1 when x is absent.
RECURSIVE ListIndexFrom(_, _, _)
ListIndexFrom(s, x, k) ==
  IF s = <<>> THEN -1
  ELSE IF Head(s) = x THEN k
  ELSE ListIndexFrom(Tail(s), x, k + 1)

ListIndex(s, x) == ListIndexFrom(s, x, 0)

Elems(s) == {s[i] : i \in 1..Len(s)}

Min(a, b) == IF a <= b THEN a ELSE b
Max(a, b) == IF a >= b THEN a ELSE b

\* ----------------------------------------------------------------- state
VARIABLES
  experiments,   \* QueueManager.experiments: id -> Experiment
  queue_order,   \* QueueManager.queue_order
  queue_file,    \* contents of experiment_queue.json, or NoFile
  clock,         \* what datetime.now() returns
  ticks,         \* how often the clock has advanced
  issued,        \* number of uuid4 values drawn so far
  pc,            \* where queue_worker is in its loop body
  next_exp,      \* queue_worker's next_exp (an experiment id), or None; where
                 \* forward_experiment's poll loop is followed, the id and
                 \* the loop's polls counter
  node_calls,    \* requests the hub has sent to the node: <<kind, id>>
  lastOp,        \* the request handler that took the last step, if it
                 \* changed the queue or was refused for the quota
  values_len,    \* len(queue_manager.experiments) when the worker created
                 \* the values() iterator of its running check, or None when
                 \* no such iteration is under way
  containers,    \* the node's containers table: id -> experiment info
  docker,        \* the container runtime of the node's host: id -> the
                 \* container named experiment-<id>, while it exists
  run_pc,        \* the node's run_experiment_container threads since its
                 \* last start, in the order they were started
  docker_client, \* whether the node's initialize_docker succeeded
  node_req       \* the request the node's event loop is serving or has
                 \* served last, with the handler's position, or None

\* The node's variables, and the worker's iterator.
nodevars == <<values_len, containers, docker, run_pc, docker_client, node_req>>

vars == <<experiments, queue_order, queue_file, clock, ticks, issued, pc,
          next_exp, node_calls, lastOp, nodevars>>

NoFile == [exists |-> FALSE, experiments |-> <<>>, queue_order |-> <<>>]

\* The file as a _save_queue that did not finish leaves it: open(..., 'w')
\* has truncated it and json.dump has written a prefix of the document (none
\* of it, or all but its closing brace), which json.load rejects.
TornFile == [exists |-> TRUE, torn |-> TRUE]

\* lastOp when the last step was not a request handler changing the queue.
NoOp == [op |-> "none", id |-> 0]
\* lastOp in a specification that keeps no record of the handlers' steps.
Untraced == [op |-> "off", id |-> 0]

\* ----------------------------------------------------- Experiment records
NewExperiment(experiment_id, user_session_id, script_content, now) ==
  [experiment_id |-> experiment_id,
   user_session_id |-> user_session_id,
   script_content |-> script_content,
   status |-> "QUEUED",
   created_at |-> now,
   started_at |-> None,
   completed_at |-> None,
   exit_code |-> None,
   error_message |-> None,
   priority |-> 0]

\* datetime.isoformat(): the date, "T", the time of day.
isoformat(t) == <<"T", t \div 24, t % 24>>
\* datetime.fromisoformat(s)
fromisoformat(s) == s[2] * 24 + s[3]

\* Experiment.to_dict
to_dict(e) ==
  [e EXCEPT !.status = StatusValue(e.status),
            !.created_at = isoformat(e.created_at),
            !.started_at = IF e.started_at # None
                           THEN isoformat(e.started_at[1]) ELSE None,
            !.completed_at = IF e.completed_at # None
                             THEN isoformat(e.completed_at[1]) ELSE None]

\* from_dict that parses completed_at only when started_at is present.
from_dict_nested(d) ==
  [d EXCEPT !.status = StatusOfValue(d.status),
            !.created_at = fromisoformat(d.created_at),
            !.started_at = IF d.started_at # None
                           THEN Some(fromisoformat(d.started_at)) ELSE None,
            !.completed_at = IF d.started_at # None /\ d.completed_at # None
                             THEN Some(fromisoformat(d.completed_at)) ELSE None]

\* Experiment.from_dict
from_dict(d) ==
  [d EXCEPT !.status = StatusOfValue(d.status),
            !.created_at = fromisoformat(d.created_at),
            !.started_at = IF d.started_at # None
                           THEN Some(fromisoformat(d.started_at)) ELSE None,
            !.completed_at = IF d.completed_at # None
                             THEN Some(fromisoformat(d.completed_at)) ELSE None]

\* ------------------------------------------------------------ persistence
\* The JSON values json.dump writes: null for None, a string for a str, a
\* number for an int.
JsonNull == <<"null">>
JsonString(s) == <<"string", s>>
JsonNumber(n) == <<"number", n>>

\* json.dump of the dictionary to_dict returns, each value written by its
\* Python type: the Optional fields are None or a value.
json_dump(d) ==
  [d EXCEPT !.experiment_id = JsonString(@),
            !.user_session_id = JsonString(@),
            !.script_content = JsonString(@),
            !.status = JsonString(@),
            !.created_at = JsonString(@),
            !.started_at = IF @ = None THEN JsonNull ELSE JsonString(@),
            !.completed_at = IF @ = None THEN JsonNull ELSE JsonString(@),
            !.exit_code = IF @ = None THEN JsonNull ELSE JsonNumber(@[1]),
            !.error_message = IF @ = None THEN JsonNull ELSE JsonString(@[1]),
            !.priority = JsonNumber(@)]

\* json.load of one job object of the file: null gives None, a string or a
\* number gives its value.
json_load(j) ==
  [j EXCEPT !.experiment_id = @[2],
            !.user_session_id = @[2],
            !.script_content = @[2],
            !.status = @[2],
            !.created_at = @[2],
            !.started_at = IF @ = JsonNull THEN None ELSE @[2],
            !.completed_at = IF @ = JsonNull THEN None ELSE @[2],
            !.exit_code = IF @ = JsonNull THEN None ELSE Some(@[2]),
            !.error_message = IF @ = JsonNull THEN None ELSE Some(@[2]),
            !.priority = @[2]]

\* data = json.load(f): the document of a file that parses.
FileData(file) ==
  [experiments |-> [id \in DOMAIN file.experiments |-> json_load(file.experiments[id])],
   queue_order |-> [i \in 1..Len(file.queue_order) |-> file.queue_order[i][2]]]

\* QueueManager._save_queue: the file's new contents.
save_queue(exps, order) ==
  [exists |-> TRUE,
   experiments |-> [id \in DOMAIN exps |-> json_dump(to_dict(exps[id]))],
   queue_order |-> [i \in 1..Len(order) |-> JsonString(order[i])]]

\* for exp_id in to_remove: ... self.queue_order.remove(exp_id)
RECURSIVE RemoveEach(_, _)
RemoveEach(order, ids) ==
  IF ids = {} THEN order
  ELSE LET x == CHOOSE y \in ids : TRUE
       IN RemoveEach(IF x \in Elems(order) THEN ListRemove(order, x) ELSE order,
                     ids \ {x})

\* to_remove leaving the Failed jobs out.
to_remove_keeping_failed(exps, now) ==
  LET cutoff_time == now - RETENTION_HOURS
  IN {id \in DOMAIN exps :
        /\ exps[id].status \in {"COMPLETED", "CANCELLED"}
        /\ exps[id].completed_at # None
        /\ exps[id].completed_at[1] < cutoff_time}

\* to_remove collecting every terminal job, whatever its age.
to_remove_any_age(exps, now) ==
  {id \in DOMAIN exps :
     /\ exps[id].status \in {"COMPLETED", "FAILED", "CANCELLED"}
     /\ exps[id].completed_at # None}

\* The ids _cleanup_old_experiments collects in to_remove.
to_remove(exps, now) ==
  LET cutoff_time == now - RETENTION_HOURS
  IN {id \in DOMAIN exps :
        /\ exps[id].status \in {"COMPLETED", "FAILED", "CANCELLED"}
        /\ exps[id].completed_at # None
        /\ exps[id].completed_at[1] < cutoff_time}

\* _cleanup_old_experiments deleting the records only, the ids staying in
\* the order sequence.
cleanup_map_only(exps, order, now) ==
  LET gone == to_remove(exps, now)
  IN [experiments |-> [id \in DOMAIN exps \ gone |-> exps[id]],
      queue_order |-> order,
      saved |-> gone # {}]

\* QueueManager._cleanup_old_experiments
cleanup_old_experiments(exps, order, now) ==
  LET gone == to_remove(exps, now)
  IN [experiments |-> [id \in DOMAIN exps \ gone |-> exps[id]],
      queue_order |-> RemoveEach(order, gone),
      saved |-> gone # {}]

\* Experiment.from_dict raises on d: ExperimentStatus(data['status']) is
\* given no value of the enumeration.
from_dict_raises(d) == d.status \notin {StatusValue(m) : m \in StatusMembers}

\* _load_queue with a try/except around each record: the records that do
\* not parse are left out, the order sequence is taken as it is.
load_queue_skipping_bad(file, now) ==
  IF file.exists /\ "torn" \in DOMAIN file
  THEN [experiments |-> <<>>, queue_order |-> <<>>, file |-> file]
  ELSE IF file.exists
  THEN LET data == FileData(file)
           good == {id \in DOMAIN data.experiments :
                      ~from_dict_raises(data.experiments[id])}
       IN [experiments |-> [id \in good |-> from_dict(data.experiments[id])],
           queue_order |-> data.queue_order,
           file |-> file]
  ELSE [experiments |-> <<>>, queue_order |-> <<>>, file |-> file]

\* QueueManager._load_queue on the file `file` at time `now`: the manager's
\* experiments and queue_order, and the file as the load leaves it.
load_queue(file, now) ==
  IF file.exists /\ "torn" \in DOMAIN file
  THEN \* json.load raises; the except clause empties the manager.
       [experiments |-> <<>>, queue_order |-> <<>>, file |-> file]
  ELSE IF file.exists /\ \E id \in DOMAIN file.experiments :
                           from_dict_raises(FileData(file).experiments[id])
  THEN \* from_dict raises inside the comprehension, before self.experiments
       \* is assigned; the except clause empties the manager.
       [experiments |-> <<>>, queue_order |-> <<>>, file |-> file]
  ELSE IF file.exists
  THEN LET data == FileData(file)
           exps == [id \in DOMAIN data.experiments |-> from_dict(data.experiments[id])]
           c == cleanup_old_experiments(exps, data.queue_order, now)
       IN [experiments |-> c.experiments,
           queue_order |-> c.queue_order,
           file |-> IF c.saved THEN save_queue(c.experiments, c.queue_order) ELSE file]
  ELSE [experiments |-> <<>>, queue_order |-> <<>>, file |-> file]

\* ------------------------------------------------- QueueManager operations
\* Each operation maps (experiments, queue_order, arguments) to the new
\* experiments and queue_order, the value returned, and whether it reached
\* its _save_queue call.
Unchanged(exps, order, ret) ==
  [experiments |-> exps, queue_order |-> order, ret |-> ret, saved |-> FALSE]

\* len(user_experiments) in add_experiment
UserLoad(exps, user_session_id) ==
  Cardinality({id \in DOMAIN exps :
                 /\ exps[id].user_session_id = user_session_id
                 /\ exps[id].status \in {"QUEUED", "RUNNING"}})

\* queue_position taken as the raw length of the order sequence.
AddPositionRawLength(exps, order) == Len(order)

\* queue_position in add_experiment
AddPosition(exps, order) ==
  Len(ListFilter(order, {id \in DOMAIN exps : exps[id].status \in {"QUEUED", "PAUSED"}}))

AddFailed == [success |-> FALSE, experiment_id |-> 0, queue_position |-> 0]

\* add_experiment appending the new id before it checks the user limit.
add_experiment_append_first(exps, order, user_session_id, script_content, experiment_id, now) ==
  IF UserLoad(exps, user_session_id) >= max_experiments_per_user
  THEN [experiments |-> exps, queue_order |-> Append(order, experiment_id),
        ret |-> AddFailed, saved |-> TRUE]
  ELSE LET e == NewExperiment(experiment_id, user_session_id, script_content, now)
           exps2 == [id \in DOMAIN exps \cup {experiment_id} |->
                       IF id = experiment_id THEN e ELSE exps[id]]
           order2 == Append(order, experiment_id)
       IN [experiments |-> exps2,
           queue_order |-> order2,
           ret |-> [success |-> TRUE, experiment_id |-> experiment_id,
                    queue_position |-> AddPosition(exps2, order2)],
           saved |-> TRUE]

\* QueueManager.add_experiment; experiment_id is the uuid4 drawn.
add_experiment(exps, order, user_session_id, script_content, experiment_id, now) ==
  IF UserLoad(exps, user_session_id) >= max_experiments_per_user
  THEN Unchanged(exps, order, AddFailed)
  ELSE LET e == NewExperiment(experiment_id, user_session_id, script_content, now)
           exps2 == [id \in DOMAIN exps \cup {experiment_id} |->
                       IF id = experiment_id THEN e ELSE exps[id]]
           order2 == Append(order, experiment_id)
       IN [experiments |-> exps2,
           queue_order |-> order2,
           ret |-> [success |-> TRUE, experiment_id |-> experiment_id,
                    queue_position |-> AddPosition(exps2, order2)],
           saved |-> TRUE]

\* get_next_experiment looking at the head of the order sequence only.
get_next_experiment_head_only(exps, order) ==
  IF order = <<>> THEN [raised |-> FALSE, value |-> None]
  ELSE IF Head(order) \notin DOMAIN exps THEN [raised |-> TRUE, value |-> None]
  ELSE IF exps[Head(order)].status = "QUEUED"
       THEN [raised |-> FALSE, value |-> Some(Head(order))]
  ELSE [raised |-> FALSE, value |-> None]

\* get_next_experiment returning the queued job submitted first (the lowest
\* id issued), whatever the order sequence says.
get_next_experiment_oldest(exps, order) ==
  LET queued == {id \in Elems(order) \cap DOMAIN exps : exps[id].status = "QUEUED"}
  IN [raised |-> FALSE,
      value |-> IF queued = {} THEN None
                ELSE Some(CHOOSE id \in queued : \A other \in queued : id <= other)]

\* get_next_experiment returning the first job that is Queued or Paused.
RECURSIVE get_next_experiment_paused_too(_, _)
get_next_experiment_paused_too(exps, order) ==
  IF order = <<>> THEN [raised |-> FALSE, value |-> None]
  ELSE IF Head(order) \notin DOMAIN exps THEN [raised |-> TRUE, value |-> None]
  ELSE IF exps[Head(order)].status \in {"QUEUED", "PAUSED"}
       THEN [raised |-> FALSE, value |-> Some(Head(order))]
  ELSE get_next_experiment_paused_too(exps, Tail(order))

\* QueueManager.get_next_experiment: the id of the experiment returned, None,
\* or raised (KeyError) when an ordered id has no record.
RECURSIVE get_next_experiment(_, _)
get_next_experiment(exps, order) ==
  IF order = <<>> THEN [raised |-> FALSE, value |-> None]
  ELSE IF Head(order) \notin DOMAIN exps THEN [raised |-> TRUE, value |-> None]
  ELSE IF exps[Head(order)].status = "QUEUED"
       THEN [raised |-> FALSE, value |-> Some(Head(order))]
  ELSE get_next_experiment(exps, Tail(order))

\* start_experiment without its status check.
start_experiment_any_status(exps, order, experiment_id, now) ==
  IF experiment_id \in DOMAIN exps
  THEN [experiments |-> [exps EXCEPT ![experiment_id].status = "RUNNING",
                                     ![experiment_id].started_at = Some(now)],
        queue_order |-> order, ret |-> TRUE, saved |-> TRUE]
  ELSE Unchanged(exps, order, FALSE)

\* start_experiment refusing to start a job while another one is Running.
start_experiment_if_none_running(exps, order, experiment_id, now) ==
  IF /\ experiment_id \in DOMAIN exps
     /\ exps[experiment_id].status = "QUEUED"
     /\ ~\E other \in DOMAIN exps : exps[other].status = "RUNNING"
  THEN [experiments |-> [exps EXCEPT ![experiment_id].status = "RUNNING",
                                     ![experiment_id].started_at = Some(now)],
        queue_order |-> order, ret |-> TRUE, saved |-> TRUE]
  ELSE Unchanged(exps, order, FALSE)

\* QueueManager.start_experiment
start_experiment(exps, order, experiment_id, now) ==
  IF experiment_id \in DOMAIN exps /\ exps[experiment_id].status = "QUEUED"
  THEN [experiments |-> [exps EXCEPT ![experiment_id].status = "RUNNING",
                                     ![experiment_id].started_at = Some(now)],
        queue_order |-> order, ret |-> TRUE, saved |-> TRUE]
  ELSE Unchanged(exps, order, FALSE)

\* complete_experiment acting on a Running job only.
complete_experiment_running_only(exps, order, experiment_id, exit_code, error_message, now) ==
  IF experiment_id \in DOMAIN exps /\ exps[experiment_id].status = "RUNNING"
  THEN [experiments |-> [exps EXCEPT
            ![experiment_id].status =
                IF exit_code = Some(0) THEN "COMPLETED" ELSE "FAILED",
            ![experiment_id].completed_at = Some(now),
            ![experiment_id].exit_code = exit_code,
            ![experiment_id].error_message = error_message],
        queue_order |-> order, ret |-> None, saved |-> TRUE]
  ELSE Unchanged(exps, order, None)

\* QueueManager.complete_experiment; exit_code and error_message are Optional.
\* The method has no return statement: it returns None on every input.
complete_experiment(exps, order, experiment_id, exit_code, error_message, now) ==
  IF experiment_id \in DOMAIN exps
  THEN [experiments |-> [exps EXCEPT
            ![experiment_id].status =
                IF exit_code = Some(0) THEN "COMPLETED" ELSE "FAILED",
            ![experiment_id].completed_at = Some(now),
            ![experiment_id].exit_code = exit_code,
            ![experiment_id].error_message = error_message],
        queue_order |-> order, ret |-> None, saved |-> TRUE]
  ELSE Unchanged(exps, order, None)

\* cancel_experiment accepting a Paused job as well.
cancel_experiment_paused_too(exps, order, experiment_id, now) ==
  IF experiment_id \in DOMAIN exps
     /\ exps[experiment_id].status \in {"QUEUED", "RUNNING", "PAUSED"}
  THEN [experiments |-> [exps EXCEPT ![experiment_id].status = "CANCELLED",
                                     ![experiment_id].completed_at = Some(now)],
        queue_order |-> order, ret |-> TRUE, saved |-> TRUE]
  ELSE Unchanged(exps, order, FALSE)

\* QueueManager.cancel_experiment
cancel_experiment(exps, order, experiment_id, now) ==
  IF experiment_id \in DOMAIN exps /\ exps[experiment_id].status \in {"QUEUED", "RUNNING"}
  THEN [experiments |-> [exps EXCEPT ![experiment_id].status = "CANCELLED",
                                     ![experiment_id].completed_at = Some(now)],
        queue_order |-> order, ret |-> TRUE, saved |-> TRUE]
  ELSE Unchanged(exps, order, FALSE)

\* QueueManager.pause_experiment
pause_experiment(exps, order, experiment_id) ==
  IF experiment_id \in DOMAIN exps /\ exps[experiment_id].status = "QUEUED"
  THEN [experiments |-> [exps EXCEPT ![experiment_id].status = "PAUSED"],
        queue_order |-> order, ret |-> TRUE, saved |-> TRUE]
  ELSE Unchanged(exps, order, FALSE)

\* resume_experiment putting the resumed job at the tail of the order.
resume_experiment_to_tail(exps, order, experiment_id) ==
  IF experiment_id \in DOMAIN exps /\ exps[experiment_id].status = "PAUSED"
  THEN [experiments |-> [exps EXCEPT ![experiment_id].status = "QUEUED"],
        queue_order |-> Append(ListRemove(order, experiment_id), experiment_id),
        ret |-> TRUE, saved |-> TRUE]
  ELSE Unchanged(exps, order, FALSE)

\* QueueManager.resume_experiment
resume_experiment(exps, order, experiment_id) ==
  IF experiment_id \in DOMAIN exps /\ exps[experiment_id].status = "PAUSED"
  THEN [experiments |-> [exps EXCEPT ![experiment_id].status = "QUEUED"],
        queue_order |-> order, ret |-> TRUE, saved |-> TRUE]
  ELSE Unchanged(exps, order, FALSE)

\* reorder_experiment clamping the position to the last index of the list
\* the id has been removed from.
reorder_experiment_short_clamp(exps, order, experiment_id, new_position) ==
  IF experiment_id \in Elems(order)
  THEN LET removed == ListRemove(order, experiment_id)
           position == Max(0, Min(new_position, Len(removed) - 1))
       IN [experiments |-> exps,
           queue_order |-> ListInsert(removed, position, experiment_id),
           ret |-> TRUE, saved |-> TRUE]
  ELSE Unchanged(exps, order, FALSE)

\* QueueManager.reorder_experiment
reorder_experiment(exps, order, experiment_id, new_position) ==
  IF experiment_id \in Elems(order)
  THEN LET removed == ListRemove(order, experiment_id)
           position == Max(0, Min(new_position, Len(removed)))
       IN [experiments |-> exps,
           queue_order |-> ListInsert(removed, position, experiment_id),
           ret |-> TRUE, saved |-> TRUE]
  ELSE Unchanged(exps, order, FALSE)

\* run_now inserting the id at the front without removing it from its place.
run_now_keep_place(exps, order, experiment_id) ==
  IF experiment_id \notin DOMAIN exps THEN Unchanged(exps, order, FALSE)
  ELSE IF exps[experiment_id].status \notin {"QUEUED", "PAUSED"}
  THEN Unchanged(exps, order, FALSE)
  ELSE [experiments |-> [exps EXCEPT ![experiment_id].status = "QUEUED"],
        queue_order |-> <<experiment_id>> \o order,
        ret |-> TRUE, saved |-> TRUE]

\* run_now moving the job to the front without resuming it.
run_now_no_resume(exps, order, experiment_id) ==
  IF experiment_id \notin DOMAIN exps THEN Unchanged(exps, order, FALSE)
  ELSE IF exps[experiment_id].status \notin {"QUEUED", "PAUSED"}
       THEN Unchanged(exps, order, FALSE)
  ELSE LET removed == IF experiment_id \in Elems(order)
                      THEN ListRemove(order, experiment_id) ELSE order
       IN [experiments |-> exps,
           queue_order |-> ListInsert(removed, 0, experiment_id),
           ret |-> TRUE, saved |-> TRUE]

\* run_now without its status check.
run_now_any_status(exps, order, experiment_id) ==
  IF experiment_id \notin DOMAIN exps THEN Unchanged(exps, order, FALSE)
  ELSE LET exps2 == IF exps[experiment_id].status = "PAUSED"
                    THEN [exps EXCEPT ![experiment_id].status = "QUEUED"]
                    ELSE exps
           removed == IF experiment_id \in Elems(order)
                      THEN ListRemove(order, experiment_id) ELSE order
       IN [experiments |-> exps2,
           queue_order |-> ListInsert(removed, 0, experiment_id),
           ret |-> TRUE, saved |-> TRUE]

\* QueueManager.run_now
run_now(exps, order, experiment_id) ==
  IF experiment_id \notin DOMAIN exps THEN Unchanged(exps, order, FALSE)
  ELSE IF exps[experiment_id].status \notin {"QUEUED", "PAUSED"}
       THEN Unchanged(exps, order, FALSE)
  ELSE LET exps2 == IF exps[experiment_id].status = "PAUSED"
                    THEN [exps EXCEPT ![experiment_id].status = "QUEUED"]
                    ELSE exps
           removed == IF experiment_id \in Elems(order)
                      THEN ListRemove(order, experiment_id) ELSE order
       IN [experiments |-> exps2,
           queue_order |-> ListInsert(removed, 0, experiment_id),
           ret |-> TRUE, saved |-> TRUE]

\* queue_position of get_experiment_status / get_user_experiments
StatusPosition(exps, order, experiment_id) ==
  IF exps[experiment_id].status = "QUEUED" /\ experiment_id \in Elems(order)
  THEN Some(ListIndex(order, experiment_id) + 1)
  ELSE None

\* QueueManager.get_experiment_status
get_experiment_status(exps, order, experiment_id) ==
  IF experiment_id \in DOMAIN exps
  THEN LET e == exps[experiment_id]
       IN Some([experiment_id |-> e.experiment_id,
                status |-> StatusValue(e.status),
                queue_position |-> StatusPosition(exps, order, experiment_id),
                created_at |-> isoformat(e.created_at),
                started_at |-> IF e.started_at # None
                               THEN isoformat(e.started_at[1]) ELSE None,
                completed_at |-> IF e.completed_at # None
                                 THEN isoformat(e.completed_at[1]) ELSE None,
                exit_code |-> e.exit_code,
                error_message |-> e.error_message])
  ELSE None

CountStatus(exps, st) == Cardinality({id \in DOMAIN exps : exps[id].status = st})

\* The "queue" list holding every ordered id that has a record.
ActiveListUnfiltered(exps, order) == ListFilter(order, DOMAIN exps)

\* The "queue" list of get_queue_status, as experiment ids.
ActiveList(exps, order) ==
  ListFilter(order, {id \in DOMAIN exps :
                       exps[id].status \in {"QUEUED", "RUNNING", "PAUSED"}})

\* QueueManager.get_queue_status
get_queue_status(exps, order) ==
  LET active == ActiveList(exps, order)
  IN [total_queued |-> CountStatus(exps, "QUEUED"),
      total_running |-> CountStatus(exps, "RUNNING"),
      total_paused |-> CountStatus(exps, "PAUSED"),
      estimated_wait_minutes |-> CountStatus(exps, "QUEUED") * 10,
      queue |-> [i \in 1..Len(active) |->
                   [experiment_id |-> active[i],
                    user_session_id |-> exps[active[i]].user_session_id,
                    status |-> StatusValue(exps[active[i]].status),
                    created_at |-> isoformat(exps[active[i]].created_at)]]]

\* ------------------------------------------------------ execution backend
\* Answers of the node's GET /api/experiments/{id}/status that end the poll
\* loop (exp_status in ["completed", "failed", "stopped"]).  The answer always
\* carries the keys exit_code and error_message, null when the entry has
\* none: the run ended with exit code 0; it ended with another exit code and
\* the thread stored a message; the sandbox could not be created or started
\* (the except clause stores status and message, no exit code); the run
\* ended with exit code 0 and the entry was then marked stopped by
\* stop_experiment.  "failed" stands for the text the node stored.  What
\* forward_experiment makes of any other ending answer differs from one of
\* these results in the text of the error only.
NodeReports ==
  {[status |-> "completed", exit_code |-> Some(0), error_message |-> None],
   [status |-> "failed", exit_code |-> Some(1), error_message |-> Some("failed")],
   [status |-> "failed", exit_code |-> None, error_message |-> Some("failed")],
   [status |-> "stopped", exit_code |-> Some(0), error_message |-> None]}

\* What forward_experiment returns for the ending answer exp_data:
\* exit_code = exp_data.get("exit_code", 1), error =
\* exp_data.get("error_message"); success only for "completed" with exit
\* code 0, otherwise error or f"Experiment {exp_status}".
ForwardResult(exp_data) ==
  IF exp_data.status = "completed" /\ exp_data.exit_code = Some(0)
  THEN [success |-> TRUE, exit_code |-> exp_data.exit_code, error |-> None]
  ELSE [success |-> FALSE, exit_code |-> exp_data.exit_code,
        error |-> IF exp_data.error_message \notin {None, Some("")}
                  THEN exp_data.error_message
                  ELSE Some("Experiment " \o exp_data.status)]

\* What BioreactorNodeHTTPClient.forward_experiment can return when the node
\* reports the run ended.
ForwardResults == {ForwardResult(exp_data) : exp_data \in NodeReports}

\* What forward_experiment returns when the node could not create or start
\* the sandbox: run_experiment_container's except clause sets status "failed"
\* and error_message and no exit_code, the status response carries
\* "exit_code": null, and exp_data.get("exit_code", 1) is None.
SandboxFailedResult ==
  ForwardResult([status |-> "failed", exit_code |-> None,
                 error_message |-> Some("failed")])

\* What forward_experiment returns without the node having reported the run
\* ended: the poll loop reached max_polls, or a status request failed with
\* something other than a timeout.  The sandbox started by the POST may
\* still be running; forward_experiment sends no stop request.

\* The poll loop returning as the run were a success.
TimeoutResultAsSuccess ==
  [success |-> TRUE, exit_code |-> Some(0), error |-> None]

\* f"Experiment timed out after {max_polls * poll_interval} seconds"
TimeoutMessage ==
  "Experiment timed out after " \o ToString(max_polls * poll_interval) \o " seconds"

\* What forward_experiment returns when the poll loop ends at max_polls.
TimeoutResult ==
  [success |-> FALSE, exit_code |-> Some(1), error |-> Some(TimeoutMessage)]

\* f"HTTP request failed: {str(e)}", for an exception e whose text is
\* "ConnectionError".
RequestFailedMessage == "HTTP request failed: " \o "ConnectionError"

\* What forward_experiment returns when a request raises a
\* RequestException that is not a Timeout.
RequestFailedResult ==
  [success |-> FALSE, exit_code |-> Some(1), error |-> Some(RequestFailedMessage)]

ForwardFailures == {TimeoutResult, RequestFailedResult}

\* exit_code = result.get("exit_code") or 0
WorkerExitCodeOrZero(res) ==
  IF "exit_code" \in DOMAIN res /\ res.exit_code \notin {None, Some(0)}
  THEN res.exit_code ELSE Some(0)

\* exit_code = result.get("exit_code", 1 if not result.get("success") else 0)
WorkerExitCode(res) ==
  IF "exit_code" \in DOMAIN res THEN res.exit_code
  ELSE IF ~res.success THEN Some(1) ELSE Some(0)

\* error_message = result.get("error")
WorkerErrorMessage(res) == IF "error" \in DOMAIN res THEN res.error ELSE None

\* ------------------------------------------------------------------- Init
\* A hub started on an empty data directory: no queue file, the worker at
\* the top of its loop.
Init ==
  /\ experiments = <<>>
  /\ queue_order = <<>>
  /\ queue_file = NoFile
  /\ clock = 0
  /\ ticks = 0
  /\ issued = 0
  /\ pc = "sleep"
  /\ next_exp = None
  /\ node_calls = {}
  /\ lastOp = NoOp
  /\ values_len = None
  /\ containers = <<>>
  /\ docker = <<>>
  /\ run_pc = <<>>
  /\ docker_client = TRUE
  /\ node_req = None

\* The effect of a QueueManager operation on the manager and on the file.
Commit(r) ==
  /\ experiments' = r.experiments
  /\ queue_order' = r.queue_order
  /\ queue_file' = IF r.saved THEN save_queue(r.experiments, r.queue_order)
                   ELSE queue_file

\* lastOp after a step that is recorded as [op, id] when `ok`.
Called(op, id, ok) ==
  IF lastOp = Untraced \/ ~ok THEN lastOp ELSE [op |-> op, id |-> id]

\* lastOp after a step of the worker or of the clock.
Other == IF lastOp = Untraced THEN lastOp ELSE NoOp

\* --------------------------------------------------------- request handlers
\* POST /api/experiments/start
QueueExperiment(user, script) ==
  LET r == add_experiment(experiments, queue_order, user, script, issued + 1, clock)
  IN /\ r.ret.success => issued < MaxJobs
     /\ Commit(r)
     /\ issued' = IF r.ret.success THEN issued + 1 ELSE issued
     /\ lastOp' = IF r.ret.success THEN Called("add", r.ret.experiment_id, TRUE)
                  ELSE Called("add_refused", 0, TRUE)
     /\ UNCHANGED <<clock, ticks, pc, next_exp, node_calls,
                 nodevars>>

\* POST /api/experiments/{experiment_id}/cancel
CancelExperiment(id) ==
  LET r == cancel_experiment(experiments, queue_order, id, clock)
  IN /\ Commit(r)
     /\ lastOp' = Called("cancel", id, r.ret)
     /\ UNCHANGED <<clock, ticks, issued, pc, next_exp, node_calls,
                 nodevars>>

\* POST /api/experiments/{experiment_id}/pause
PauseExperiment(id) ==
  LET r == pause_experiment(experiments, queue_order, id)
  IN /\ Commit(r)
     /\ lastOp' = Called("pause", id, r.ret)
     /\ UNCHANGED <<clock, ticks, issued, pc, next_exp, node_calls,
                 nodevars>>

\* POST /api/experiments/{experiment_id}/resume
ResumeExperiment(id) ==
  LET r == resume_experiment(experiments, queue_order, id)
  IN /\ Commit(r)
     /\ lastOp' = Called(IF lastOp = [op |-> "pause", id |-> id]
                         THEN "pause_resume" ELSE "resume", id, r.ret)
     /\ UNCHANGED <<clock, ticks, issued, pc, next_exp, node_calls,
                 nodevars>>

\* POST /api/experiments/{experiment_id}/reorder
ReorderExperiment(id, new_position) ==
  LET r == reorder_experiment(experiments, queue_order, id, new_position)
  IN /\ Commit(r)
     /\ lastOp' = Called("reorder", id, r.ret)
     /\ UNCHANGED <<clock, ticks, issued, pc, next_exp, node_calls,
                 nodevars>>

\* QueueManager.run_now called directly: the method is public and no
\* request handler of main.py calls it.
RunNow(id) ==
  LET r == run_now(experiments, queue_order, id)
  IN /\ Commit(r)
     /\ lastOp' = Called("run_now", id, r.ret)
     /\ UNCHANGED <<clock, ticks, issued, pc, next_exp, node_calls,
                 nodevars>>

\* ------------------------------------------------------------ queue_worker
\* The running check left out: the worker takes the next job every tick.
AnyRunningSkipped(exps) == FALSE

\* running = any(exp.status == RUNNING for exp in queue_manager.experiments.values())
AnyRunning(exps) == \E id \in DOMAIN exps : exps[id].status = "RUNNING"

\* The loop body up to the peek: the running check, then
\* next_exp = queue_manager.get_next_experiment().  With a job running, or
\* no job queued, the body ends in time.sleep(2); a KeyError raised by
\* get_next_experiment is caught by the loop's except clause, which sleeps
\* too.  The worker writes nothing between the two reads and no handler can
\* make a job RUNNING, so the two reads are taken in one step.
WorkerPoll ==
  LET g == get_next_experiment(experiments, queue_order)
      idle == AnyRunning(experiments) \/ g.raised \/ g.value = None
  IN /\ pc = "sleep"
     /\ pc' = IF idle THEN "sleep" ELSE "start"
     /\ next_exp' = IF idle THEN None ELSE g.value
     /\ lastOp' = Other
     /\ UNCHANGED <<experiments, queue_order, queue_file, clock, ticks, issued,
                    node_calls,
                 nodevars>>

\* queue_manager.start_experiment(next_exp.experiment_id), whose returned flag
\* is not looked at.  The call returns with the lock released and nothing
\* sent to the node yet.
WorkerStart ==
  LET r == start_experiment(experiments, queue_order, next_exp[1], clock)
  IN /\ pc = "start"
     /\ Commit(r)
     /\ pc' = "post"
     /\ lastOp' = Other
     /\ UNCHANGED <<clock, ticks, issued, next_exp, node_calls,
                 nodevars>>

\* node_client.forward_experiment(next_exp.experiment_id, ...) begins: the
\* POST /api/experiments/start for the job the worker peeked, whatever has
\* become of the job since.
WorkerPost ==
  /\ pc = "post"
  /\ node_calls' = node_calls \cup {<<"start", next_exp[1]>>}
  /\ pc' = "forward"
  /\ lastOp' = Other
  /\ UNCHANGED <<experiments, queue_order, queue_file, clock, ticks, issued,
                 next_exp, nodevars>>

\* forward_experiment returns res, and
\* queue_manager.complete_experiment(next_exp.experiment_id, exit_code,
\* error_message); then time.sleep(2).
WorkerComplete(res) ==
  /\ pc = "forward"
  /\ Commit(complete_experiment(experiments, queue_order, next_exp[1],
                                WorkerExitCode(res), WorkerErrorMessage(res),
                                clock))
  /\ pc' = "sleep"
  /\ next_exp' = None
  /\ lastOp' = Other
  /\ UNCHANGED <<clock, ticks, issued, node_calls,
                 nodevars>>

\* ------------------------------------------------------------ environment
\* Time passes.
Tick ==
  /\ ticks < MaxTicks
  /\ ticks' = ticks + 1
  /\ clock' = clock + TickHours
  /\ lastOp' = Other
  /\ UNCHANGED <<experiments, queue_order, queue_file, issued, pc, next_exp,
                 node_calls,
                 nodevars>>

\* The hub process stops and is started again on the same data directory:
\* lifespan constructs a new QueueManager (which loads the file) and a new
\* worker thread.
Restart ==
  LET l == load_queue(queue_file, clock)
  IN /\ experiments' = l.experiments
     /\ queue_order' = l.queue_order
     /\ queue_file' = l.file
     /\ pc' = "sleep"
     /\ next_exp' = None
     /\ lastOp' = Called("restart", 0, TRUE)
     /\ UNCHANGED <<clock, ticks, issued, node_calls,
                 nodevars>>

\* What a call of the QueueManager leaves: the job map, the order sequence,
\* and whether the call reached _save_queue.
Outcome(r) == <<r.experiments, r.queue_order, r.saved>>

\* What the handlers' calls of the QueueManager would leave in this state.
HandlerOutcomes ==
  {Outcome(add_experiment(experiments, queue_order, user, script, issued + 1, clock)) :
     user \in Users, script \in Scripts}
  \cup {Outcome(cancel_experiment(experiments, queue_order, id, clock)) : id \in Ids}
  \cup {Outcome(pause_experiment(experiments, queue_order, id)) : id \in Ids}
  \cup {Outcome(resume_experiment(experiments, queue_order, id)) : id \in Ids}

\* The hub process is killed while a handler's call is inside _save_queue,
\* after open(..., 'w') and before json.dump has finished, and is started
\* again on the same data directory (lifespan, as in Restart).  Nothing
\* runs between the kill and the start.
CrashInSave ==
  /\ \E o \in HandlerOutcomes : o[3]
  /\ LET l == load_queue(TornFile, clock)
     IN /\ experiments' = l.experiments
        /\ queue_order' = l.queue_order
        /\ queue_file' = l.file
  /\ pc' = "sleep"
  /\ next_exp' = None
  /\ lastOp' = Called("crash", 0, TRUE)
  /\ UNCHANGED <<clock, ticks, issued, node_calls,
                 nodevars>>

Handlers ==
  \/ \E user \in Users, script \in Scripts : QueueExperiment(user, script)
  \/ \E id \in Ids : CancelExperiment(id)
  \/ \E id \in Ids : PauseExperiment(id)
  \/ \E id \in Ids : ResumeExperiment(id)
  \/ \E id \in Ids, new_position \in Positions : ReorderExperiment(id, new_position)

Worker ==
  \/ WorkerPoll
  \/ WorkerStart
  \/ WorkerPost
  \/ \E res \in ForwardResults \cup ForwardFailures : WorkerComplete(res)

Next ==
  \/ Handlers
  \/ Worker
  \/ Tick
  \/ Restart
  \/ CrashInSave

\* The hub: any request at any time, the worker, the clock, restarts.
Spec == Init /\ [][Next]_vars

\* Init with no record kept of the handlers' steps.
InitUntraced ==
  /\ experiments = <<>>
  /\ queue_order = <<>>
  /\ queue_file = NoFile
  /\ clock = 0
  /\ ticks = 0
  /\ issued = 0
  /\ pc = "sleep"
  /\ next_exp = None
  /\ node_calls = {}
  /\ lastOp = Untraced
  /\ values_len = None
  /\ containers = <<>>
  /\ docker = <<>>
  /\ run_pc = <<>>
  /\ docker_client = TRUE
  /\ node_req = None

\* The hub with one submitter and a clock that stands still.
NextQueue ==
  \/ \E script \in Scripts : QueueExperiment("u1", script)
  \/ \E id \in Ids : CancelExperiment(id)
  \/ \E id \in Ids : PauseExperiment(id)
  \/ \E id \in Ids : ResumeExperiment(id)
  \/ \E id \in Ids, new_position \in Positions : ReorderExperiment(id, new_position)
  \/ \E id \in Ids : RunNow(id)
  \/ WorkerPoll
  \/ WorkerStart
  \/ WorkerPost
  \/ \E res \in ForwardResults : WorkerComplete(res)
  \/ Restart

SpecQueue == InitUntraced /\ [][NextQueue]_vars

\* The same with the handlers' steps recorded, no restart, and runs that
\* end with an exit code.
NextCalls ==
  \/ \E script \in Scripts : QueueExperiment("u1", script)
  \/ \E id \in Ids : CancelExperiment(id)
  \/ \E id \in Ids : PauseExperiment(id)
  \/ \E id \in Ids : ResumeExperiment(id)
  \/ \E id \in Ids, new_position \in Positions : ReorderExperiment(id, new_position)
  \/ \E id \in Ids : RunNow(id)
  \/ WorkerPoll
  \/ WorkerStart
  \/ WorkerPost
  \/ \E res \in {r \in ForwardResults : r.exit_code # None} : WorkerComplete(res)

SpecCalls == Init /\ [][NextCalls]_vars

\* The hub with a clock that advances, restarts, and at most MaxTimedJobs
\* submissions of one submitter.
NextTimed ==
  \/ \E script \in Scripts : issued < MaxTimedJobs /\ QueueExperiment("u1", script)
  \/ \E id \in Ids : CancelExperiment(id)
  \/ \E id \in Ids : PauseExperiment(id)
  \/ \E id \in Ids : ResumeExperiment(id)
  \/ \E id \in Ids : RunNow(id)
  \/ WorkerPoll
  \/ WorkerStart
  \/ WorkerPost
  \/ \E res \in {r \in ForwardResults : r.exit_code # None} : WorkerComplete(res)
  \/ Tick
  \/ Restart

SpecTimed == Init /\ [][NextTimed]_vars

\* The hub with a clock that advances and restarts, no record of the
\* handlers' steps, MaxJobs submissions of one submitter, no pausing, and
\* runs that succeed.
NextSweep ==
  \/ \E script \in Scripts : QueueExperiment("u1", script)
  \/ \E id \in Ids : CancelExperiment(id)
  \/ \E id \in Ids : RunNow(id)
  \/ WorkerPoll
  \/ WorkerStart
  \/ WorkerPost
  \/ \E res \in {r \in ForwardResults : r.success} : WorkerComplete(res)
  \/ Tick
  \/ Restart

SpecSweep == InitUntraced /\ [][NextSweep]_vars

\* The hub with one submitter, no reordering, runs that succeed, and kills
\* of the process during a save.
NextCrash ==
  \/ \E script \in Scripts : QueueExperiment("u1", script)
  \/ \E id \in Ids : CancelExperiment(id)
  \/ \E id \in Ids : PauseExperiment(id)
  \/ \E id \in Ids : ResumeExperiment(id)
  \/ WorkerPoll
  \/ WorkerStart
  \/ WorkerPost
  \/ \E res \in {r \in ForwardResults : r.success} : WorkerComplete(res)
  \/ CrashInSave

SpecCrash == Init /\ [][NextCrash]_vars

\* The hub with one submitter, cancellation and restarts, and a worker thread
\* that is scheduled: each of its steps that stays possible is taken
\* (forward_experiment returns after at most max_polls polls).  Requests and
\* restarts may or may not come.
NextRecover ==
  \/ \E script \in Scripts : QueueExperiment("u1", script)
  \/ \E id \in Ids : CancelExperiment(id)
  \/ WorkerPoll
  \/ WorkerStart
  \/ WorkerPost
  \/ \E res \in ForwardResults : WorkerComplete(res)
  \/ Restart

SpecRecover ==
  /\ InitUntraced
  /\ [][NextRecover]_vars
  /\ WF_vars(WorkerPoll)
  /\ WF_vars(WorkerStart)
  /\ WF_vars(WorkerPost)
  /\ WF_vars(\E res \in ForwardResults : WorkerComplete(res))

\* The hub with one submitter and a backend whose runs can also end in a
\* poll timeout or a failed status request.
NextNode ==
  \/ \E script \in Scripts : QueueExperiment("u1", script)
  \/ \E id \in Ids : CancelExperiment(id)
  \/ WorkerPoll
  \/ WorkerStart
  \/ WorkerPost
  \/ \E res \in ForwardResults \cup ForwardFailures : WorkerComplete(res)

SpecNode == InitUntraced /\ [][NextNode]_vars

\* ------------------------------------------------- statement-level threads
\* The same operations taken one assignment at a time, to see what a thread
\* that does not take QueueManager.lock can observe.  Two threads touch the
\* manager: the event loop, which runs the request handlers one at a time,
\* and the queue_worker thread.  pc says where the worker is; lastOp says
\* where the event loop is ("add_mid" and "cancel_mid": inside a call that
\* holds the lock).

\* The event loop is inside add_experiment or cancel_experiment.
HandlerMidMutation == lastOp.op \in {"add_mid", "cancel_mid"}

\* The worker is inside start_experiment or complete_experiment.
WorkerMidMutation ==
  pc \in {"start_stamp", "complete_rest", "complete_code", "complete_message",
          "complete_save"}

\* `with self.lock` can be entered.
LockFree == ~HandlerMidMutation /\ ~WorkerMidMutation

\* The event loop is inside get_experiment_status, which takes no lock.
HandlerReading == lastOp.op = "status_mid"

\* The event loop is between two requests.
HandlerIdle == ~HandlerMidMutation /\ ~HandlerReading

\* add_experiment up to self.experiments[experiment_id] = experiment.
AddBegin(user, script) ==
  LET r == add_experiment(experiments, queue_order, user, script, issued + 1, clock)
  IN /\ LockFree
     /\ HandlerIdle
     /\ issued < MaxJobs
     /\ r.ret.success
     /\ experiments' = r.experiments
     /\ issued' = issued + 1
     /\ lastOp' = [op |-> "add_mid", id |-> issued + 1]
     /\ UNCHANGED <<queue_order, queue_file, clock, ticks, pc, next_exp, node_calls,
                 nodevars>>

\* self.queue_order.append(experiment_id); self._save_queue(); return.
AddEnd ==
  /\ lastOp.op = "add_mid"
  /\ queue_order' = Append(queue_order, lastOp.id)
  /\ queue_file' = save_queue(experiments, queue_order')
  /\ lastOp' = [op |-> "add", id |-> lastOp.id]
  /\ UNCHANGED <<experiments, clock, ticks, issued, pc, next_exp, node_calls,
                 nodevars>>

\* cancel_experiment up to experiment.status = ExperimentStatus.CANCELLED.
CancelBegin(id) ==
  /\ LockFree
  /\ HandlerIdle
  /\ cancel_experiment(experiments, queue_order, id, clock).ret
  /\ experiments' = [experiments EXCEPT ![id].status = "CANCELLED"]
  /\ lastOp' = [op |-> "cancel_mid", id |-> id]
  /\ UNCHANGED <<queue_order, queue_file, clock, ticks, issued, pc, next_exp, node_calls,
                 nodevars>>

\* experiment.completed_at = datetime.now(); self._save_queue(); return True.
CancelEnd ==
  /\ lastOp.op = "cancel_mid"
  /\ experiments' = [experiments EXCEPT ![lastOp.id].completed_at = Some(clock)]
  /\ queue_file' = save_queue(experiments', queue_order)
  /\ lastOp' = [op |-> "cancel", id |-> lastOp.id]
  /\ UNCHANGED <<queue_order, clock, ticks, issued, pc, next_exp, node_calls,
                 nodevars>>

\* GET /api/experiments/{experiment_id}/status: get_experiment_status reads
\* self.experiments and self.queue_order without taking the lock, one field
\* at a time, while the worker thread goes on.  lastOp holds the handler's
\* position `at` and the fields of the answer read so far.

\* The answer before its mutable fields are read; experiment_id and
\* created_at are never assigned after the job is made.
StatusAnswer(id) ==
  [experiment_id |-> experiments[id].experiment_id,
   status |-> "",
   queue_position |-> None,
   created_at |-> isoformat(experiments[id].created_at),
   started_at |-> None,
   completed_at |-> None,
   exit_code |-> None,
   error_message |-> None]

\* The handler's steps change lastOp only.
ReadStatusFrame ==
  UNCHANGED <<experiments, queue_order, queue_file, clock, ticks, issued, pc,
              next_exp, node_calls, nodevars>>

\* The handler is at `at`.
ReadStatusAt(at) == lastOp.op = "status_mid" /\ lastOp.at = at

\* if experiment_id in self.experiments: experiment = self.experiments[...];
\* None is returned for an id without record.
ReadStatus(id) ==
  /\ HandlerIdle
  /\ lastOp' = IF id \in DOMAIN experiments
               THEN [op |-> "status_mid", id |-> id, at |-> "test",
                     answer |-> StatusAnswer(id)]
               ELSE [op |-> "status_read", id |-> id, answer |-> None]
  /\ ReadStatusFrame

\* if experiment.status == ExperimentStatus.QUEUED
ReadStatusTest ==
  /\ ReadStatusAt("test")
  /\ lastOp' = [lastOp EXCEPT !.at = IF experiments[lastOp.id].status = "QUEUED"
                                      THEN "index" ELSE "status"]
  /\ ReadStatusFrame

\* queue_position = self.queue_order.index(experiment_id) + 1, left None
\* when the id is not in the order (ValueError).
ReadStatusIndex ==
  /\ ReadStatusAt("index")
  /\ lastOp' = [lastOp EXCEPT
                  !.at = "status",
                  !.answer.queue_position =
                     IF lastOp.id \in Elems(queue_order)
                     THEN Some(ListIndex(queue_order, lastOp.id) + 1) ELSE None]
  /\ ReadStatusFrame

\* "status": experiment.status.value
ReadStatusValue ==
  /\ ReadStatusAt("status")
  /\ lastOp' = [lastOp EXCEPT
                  !.at = "started_test",
                  !.answer.status = StatusValue(experiments[lastOp.id].status)]
  /\ ReadStatusFrame

\* "started_at": ... if experiment.started_at else None
ReadStatusStartedTest ==
  /\ ReadStatusAt("started_test")
  /\ lastOp' = [lastOp EXCEPT !.at = IF experiments[lastOp.id].started_at # None
                                      THEN "started" ELSE "completed_test"]
  /\ ReadStatusFrame

\* "started_at": experiment.started_at.isoformat()
ReadStatusStarted ==
  /\ ReadStatusAt("started")
  /\ lastOp' = [lastOp EXCEPT
                  !.at = "completed_test",
                  !.answer.started_at = isoformat(experiments[lastOp.id].started_at[1])]
  /\ ReadStatusFrame

\* "completed_at": ... if experiment.completed_at else None
ReadStatusCompletedTest ==
  /\ ReadStatusAt("completed_test")
  /\ lastOp' = [lastOp EXCEPT !.at = IF experiments[lastOp.id].completed_at # None
                                      THEN "completed" ELSE "exit_code"]
  /\ ReadStatusFrame

\* "completed_at": experiment.completed_at.isoformat()
ReadStatusCompleted ==
  /\ ReadStatusAt("completed")
  /\ lastOp' = [lastOp EXCEPT
                  !.at = "exit_code",
                  !.answer.completed_at =
                     isoformat(experiments[lastOp.id].completed_at[1])]
  /\ ReadStatusFrame

\* "exit_code": experiment.exit_code
ReadStatusExitCode ==
  /\ ReadStatusAt("exit_code")
  /\ lastOp' = [lastOp EXCEPT !.at = "error_message",
                              !.answer.exit_code = experiments[lastOp.id].exit_code]
  /\ ReadStatusFrame

\* "error_message": experiment.error_message; the dictionary is returned.
ReadStatusMessage ==
  /\ ReadStatusAt("error_message")
  /\ lastOp' = [op |-> "status_read", id |-> lastOp.id,
                answer |-> Some([lastOp.answer EXCEPT
                   !.error_message = experiments[lastOp.id].error_message])]
  /\ ReadStatusFrame

\* A step of get_experiment_status after its first.
ReadStatusStep ==
  \/ ReadStatusTest
  \/ ReadStatusIndex
  \/ ReadStatusValue
  \/ ReadStatusStartedTest
  \/ ReadStatusStarted
  \/ ReadStatusCompletedTest
  \/ ReadStatusCompleted
  \/ ReadStatusExitCode
  \/ ReadStatusMessage

\* GET /api/experiments/user: get_user_experiments reads self.experiments and
\* self.queue_order without taking the lock.
ReadUser ==
  /\ HandlerIdle
  /\ lastOp' = [op |-> "user_read", id |-> 0]
  /\ UNCHANGED <<experiments, queue_order, queue_file, clock, ticks, issued, pc,
                 next_exp, node_calls,
                 nodevars>>

\* GET /api/queue/status: get_queue_status reads under `with self.lock`.
ReadQueue ==
  /\ LockFree
  /\ HandlerIdle
  /\ lastOp' = [op |-> "queue_read", id |-> 0]
  /\ UNCHANGED <<experiments, queue_order, queue_file, clock, ticks, issued, pc,
                 next_exp, node_calls,
                 nodevars>>

\* running = any(... for exp in queue_manager.experiments.values()), read by
\* the worker without taking the lock; with no job running it goes on to
\* get_next_experiment.
WorkerCheck ==
  /\ pc = "sleep"
  /\ ~AnyRunning(experiments)
  /\ pc' = "peek"
  /\ UNCHANGED <<experiments, queue_order, queue_file, clock, ticks, issued,
                 next_exp, node_calls, lastOp,
                 nodevars>>

\* next_exp = queue_manager.get_next_experiment(), under the lock.
WorkerPeek ==
  LET g == get_next_experiment(experiments, queue_order)
      idle == g.raised \/ g.value = None
  IN /\ pc = "peek"
     /\ LockFree
     /\ pc' = IF idle THEN "sleep" ELSE "start"
     /\ next_exp' = IF idle THEN None ELSE g.value
     /\ UNCHANGED <<experiments, queue_order, queue_file, clock, ticks, issued,
                    node_calls, lastOp,
                 nodevars>>

\* start_experiment up to experiment.status = ExperimentStatus.RUNNING; when
\* the job is not Queued the call returns False and the worker goes on to
\* forward_experiment.
WorkerStartBegin ==
  LET r == start_experiment(experiments, queue_order, next_exp[1], clock)
  IN /\ pc = "start"
     /\ LockFree
     /\ IF r.ret
        THEN /\ experiments' = [experiments EXCEPT ![next_exp[1]].status = "RUNNING"]
             /\ pc' = "start_stamp"
        ELSE /\ UNCHANGED experiments
             /\ pc' = "post"
     /\ UNCHANGED <<queue_order, queue_file, clock, ticks, issued, next_exp, lastOp,
                 node_calls, nodevars>>

\* experiment.started_at = datetime.now(); self._save_queue(); return True:
\* the lock is released and nothing has been sent to the node.
WorkerStartEnd ==
  /\ pc = "start_stamp"
  /\ experiments' = [experiments EXCEPT ![next_exp[1]].started_at = Some(clock)]
  /\ queue_file' = save_queue(experiments', queue_order)
  /\ pc' = "post"
  /\ UNCHANGED <<queue_order, clock, ticks, issued, next_exp, lastOp,
                 node_calls, nodevars>>

\* forward_experiment begins, the worker holding no lock: the POST
\* /api/experiments/start for the job it peeked.
WorkerSendStart ==
  /\ pc = "post"
  /\ node_calls' = node_calls \cup {<<"start", next_exp[1]>>}
  /\ pc' = "forward"
  /\ UNCHANGED <<experiments, queue_order, queue_file, clock, ticks, issued,
                 next_exp, lastOp, nodevars>>

\* forward_experiment returns res; complete_experiment up to
\* experiment.status = COMPLETED if exit_code == 0 else FAILED.
WorkerCompleteBegin(res) ==
  /\ pc = "forward"
  /\ LockFree
  /\ next_exp[1] \in DOMAIN experiments
  /\ experiments' = [experiments EXCEPT ![next_exp[1]].status =
                       IF WorkerExitCode(res) = Some(0) THEN "COMPLETED" ELSE "FAILED"]
  /\ pc' = "complete_rest"
  /\ UNCHANGED <<queue_order, queue_file, clock, ticks, issued, next_exp,
                 node_calls, lastOp,
                 nodevars>>

\* experiment.completed_at = datetime.now()
WorkerCompleteStamp ==
  /\ pc = "complete_rest"
  /\ experiments' = [experiments EXCEPT ![next_exp[1]].completed_at = Some(clock)]
  /\ pc' = "complete_code"
  /\ UNCHANGED <<queue_order, queue_file, clock, ticks, issued, next_exp,
                 node_calls, lastOp, nodevars>>

\* experiment.exit_code = exit_code, for the result res whose status was
\* assigned.
WorkerCompleteCode(res) ==
  /\ pc = "complete_code"
  /\ (experiments[next_exp[1]].status = "COMPLETED") <=> (WorkerExitCode(res) = Some(0))
  /\ experiments' = [experiments EXCEPT ![next_exp[1]].exit_code = WorkerExitCode(res)]
  /\ pc' = "complete_message"
  /\ UNCHANGED <<queue_order, queue_file, clock, ticks, issued, next_exp,
                 node_calls, lastOp, nodevars>>

\* experiment.error_message = error_message, for the result res whose
\* exit code was assigned.
WorkerCompleteMessage(res) ==
  /\ pc = "complete_message"
  /\ experiments[next_exp[1]].exit_code = WorkerExitCode(res)
  /\ experiments' = [experiments EXCEPT
                       ![next_exp[1]].error_message = WorkerErrorMessage(res)]
  /\ pc' = "complete_save"
  /\ UNCHANGED <<queue_order, queue_file, clock, ticks, issued, next_exp,
                 node_calls, lastOp, nodevars>>

\* self._save_queue(); complete_experiment returns and the lock is
\* released; then time.sleep(2).
WorkerCompleteEnd ==
  /\ pc = "complete_save"
  /\ queue_file' = save_queue(experiments, queue_order)
  /\ pc' = "sleep"
  /\ next_exp' = None
  /\ UNCHANGED <<experiments, queue_order, clock, ticks, issued, node_calls,
                 lastOp, nodevars>>

\* The hub with one submitter, statement by statement.
NextLock ==
  \/ \E script \in Scripts : AddBegin("u1", script)
  \/ AddEnd
  \/ \E id \in Ids : CancelBegin(id)
  \/ CancelEnd
  \/ \E id \in Ids : ReadStatus(id)
  \/ ReadStatusStep
  \/ ReadUser
  \/ ReadQueue
  \/ WorkerCheck
  \/ WorkerPeek
  \/ WorkerStartBegin
  \/ WorkerStartEnd
  \/ WorkerSendStart
  \/ \E res \in {r \in ForwardResults : r.exit_code # None} : WorkerCompleteBegin(res)
  \/ WorkerCompleteStamp
  \/ \E res \in {r \in ForwardResults : r.exit_code # None} : WorkerCompleteCode(res)
  \/ \E res \in {r \in ForwardResults : r.exit_code # None} : WorkerCompleteMessage(res)
  \/ WorkerCompleteEnd

SpecLock == Init /\ [][NextLock]_vars

\* ------------------------------------------------------- the poll loop
\* polls of forward_experiment; 0 when the loop has not been entered.
Polls == IF Len(next_exp) = 2 THEN next_exp[2] ELSE 0

\* One turn of the loop that does not end it: the node reports a status
\* that is not terminal, or the status request times out; then
\* time.sleep(poll_interval); polls += 1.
PollAgain ==
  /\ pc = "forward"
  /\ Polls < max_polls
  /\ next_exp' = <<next_exp[1], Polls + 1>>
  /\ UNCHANGED <<experiments, queue_order, queue_file, clock, ticks, issued, pc,
                 node_calls, lastOp,
                 nodevars>>

\* A turn of the loop in which the node reports a terminal status, and the
\* worker's complete_experiment.
PollEnds(res) ==
  /\ Polls < max_polls
  /\ WorkerComplete(res)

\* A turn of the loop in which the status request raises a RequestException
\* other than Timeout, and the worker's complete_experiment.
PollFails ==
  /\ Polls < max_polls
  /\ WorkerComplete(RequestFailedResult)

\* The while condition polls < max_polls fails: forward_experiment returns
\* its timeout result, and the worker's complete_experiment.
PollTimeout ==
  /\ Polls >= max_polls
  /\ WorkerComplete(TimeoutResult)

\* The hub with one submitter, cancellation, and the poll loop followed turn
\* by turn; the worker thread is scheduled.
NextPoll ==
  \/ \E script \in Scripts : QueueExperiment("u1", script)
  \/ \E id \in Ids : CancelExperiment(id)
  \/ WorkerPoll
  \/ WorkerStart
  \/ WorkerPost
  \/ PollAgain
  \/ \E res \in ForwardResults : PollEnds(res)
  \/ PollFails
  \/ PollTimeout

SpecPoll ==
  /\ InitUntraced
  /\ [][NextPoll]_vars
  /\ WF_vars(WorkerPoll)
  /\ WF_vars(WorkerStart)
  /\ WF_vars(WorkerPost)
  /\ WF_vars(PollAgain \/ (\E res \in ForwardResults : PollEnds(res)) \/ PollFails)
  /\ WF_vars(PollTimeout)

\* The hub with one submitter and a clock that advances, never restarted;
\* the worker thread is scheduled and time passes.
NextRunning ==
  \/ \E script \in Scripts : issued < MaxTimedJobs /\ QueueExperiment("u1", script)
  \/ \E id \in Ids : CancelExperiment(id)
  \/ WorkerPoll
  \/ WorkerStart
  \/ WorkerPost
  \/ \E res \in ForwardResults : WorkerComplete(res)
  \/ Tick

SpecRunning ==
  /\ InitUntraced
  /\ [][NextRunning]_vars
  /\ WF_vars(WorkerPoll)
  /\ WF_vars(WorkerStart)
  /\ WF_vars(WorkerPost)
  /\ WF_vars(\E res \in ForwardResults : WorkerComplete(res))
  /\ WF_vars(Tick)

\* ------------------------------------------------- the worker's loop and try
\* lifespan's shutdown has set queue_worker_stop; the event loop takes no
\* more requests.
StopSet == lastOp.op = "shutdown"

\* lifespan after its yield: queue_worker_stop.set().  The wait for the
\* worker and the end of the process are ProcessEnds.
Shutdown ==
  /\ HandlerIdle
  /\ ~StopSet
  /\ lastOp' = [op |-> "shutdown", id |-> 0]
  /\ UNCHANGED <<experiments, queue_order, queue_file, clock, ticks, issued, pc,
                 next_exp, node_calls, nodevars>>

\* queue_worker_thread.join(timeout=5) returns, the worker having returned
\* or the 5 s having passed; lifespan returns and the process ends, and with
\* it the worker, a daemon thread, wherever it is.  A worker that is inside
\* _save_queue may leave the file torn.
ProcessEnds(torn) ==
  /\ StopSet
  /\ pc # "ended"
  /\ torn => pc \in {"start_stamp", "complete_save"}
  /\ queue_file' = IF torn THEN TornFile ELSE queue_file
  /\ pc' = "ended"
  /\ UNCHANGED <<experiments, queue_order, clock, ticks, issued, next_exp,
                 node_calls, lastOp, nodevars>>

\* while not queue_worker_stop.is_set() with the signal set: the loop ends
\* and queue_worker returns.
WorkerExit ==
  /\ pc = "sleep"
  /\ StopSet
  /\ pc' = "exited"
  /\ UNCHANGED <<experiments, queue_order, queue_file, clock, ticks, issued,
                 next_exp, node_calls, lastOp, nodevars>>

\* The loop test passes and any(...) creates the iterator over
\* queue_manager.experiments.values(), which notes the dict's size; the
\* lock is not taken.
WorkerIterBegin ==
  /\ pc = "sleep"
  /\ ~StopSet
  /\ pc' = "check"
  /\ values_len' = Some(Cardinality(DOMAIN experiments))
  /\ UNCHANGED <<experiments, queue_order, queue_file, clock, ticks, issued,
                 next_exp, node_calls, lastOp, containers, docker, run_pc,
                 docker_client, node_req>>

\* The iterator's next step with no except clause around the loop body: the
\* RuntimeError ends the thread.
WorkerIterRaiseUncaught ==
  /\ pc = "check"
  /\ values_len # Some(Cardinality(DOMAIN experiments))
  /\ pc' = "exited"
  /\ values_len' = None
  /\ UNCHANGED <<experiments, queue_order, queue_file, clock, ticks, issued,
                 next_exp, node_calls, lastOp, containers, docker, run_pc,
                 docker_client, node_req>>

\* The iterator's next step finds the dict's size changed (a handler has
\* inserted a job since the iterator was created) and raises RuntimeError;
\* the loop's except clause logs it and goes to time.sleep(5).
WorkerIterRaise ==
  /\ pc = "check"
  /\ values_len # Some(Cardinality(DOMAIN experiments))
  /\ pc' = "backoff"
  /\ values_len' = None
  /\ UNCHANGED <<experiments, queue_order, queue_file, clock, ticks, issued,
                 next_exp, node_calls, lastOp, containers, docker, run_pc,
                 docker_client, node_req>>

\* The iteration ends: the dict's size is as it was, or any() met a Running
\* job and returned before the iterator's next step.  With a job running the
\* tick ends in time.sleep(2).
WorkerIterEnd ==
  /\ pc = "check"
  /\ values_len = Some(Cardinality(DOMAIN experiments)) \/ AnyRunning(experiments)
  /\ pc' = IF AnyRunning(experiments) THEN "sleep" ELSE "peek"
  /\ values_len' = None
  /\ UNCHANGED <<experiments, queue_order, queue_file, clock, ticks, issued,
                 next_exp, node_calls, lastOp, containers, docker, run_pc,
                 docker_client, node_req>>

\* time.sleep(5) of the except clause ends.
WorkerBackoff ==
  /\ pc = "backoff"
  /\ pc' = "sleep"
  /\ UNCHANGED <<experiments, queue_order, queue_file, clock, ticks, issued,
                 next_exp, node_calls, lastOp, nodevars>>

\* The hub with one submitter, statement by statement, with the worker's
\* loop test and its except clause, until the process ends.
NextWorker ==
  \/ \E script \in Scripts : ~StopSet /\ AddBegin("u1", script)
  \/ AddEnd
  \/ \E id \in Ids : ~StopSet /\ CancelBegin(id)
  \/ CancelEnd
  \/ Shutdown
  \/ \E torn \in BOOLEAN : ProcessEnds(torn)
  \/ WorkerExit
  \/ WorkerIterBegin
  \/ WorkerIterRaise
  \/ WorkerIterEnd
  \/ WorkerBackoff
  \/ WorkerPeek
  \/ WorkerStartBegin
  \/ WorkerStartEnd
  \/ WorkerSendStart
  \/ \E res \in {r \in ForwardResults : r.exit_code # None} : WorkerCompleteBegin(res)
  \/ WorkerCompleteStamp
  \/ \E res \in {r \in ForwardResults : r.exit_code # None} : WorkerCompleteCode(res)
  \/ \E res \in {r \in ForwardResults : r.exit_code # None} : WorkerCompleteMessage(res)
  \/ WorkerCompleteEnd

\* A step of the worker thread other than the loop's end.
WorkerStep ==
  \/ WorkerIterBegin
  \/ WorkerIterRaise
  \/ WorkerIterEnd
  \/ WorkerBackoff
  \/ WorkerPeek
  \/ WorkerStartBegin
  \/ WorkerStartEnd
  \/ WorkerSendStart
  \/ \E res \in {r \in ForwardResults : r.exit_code # None} : WorkerCompleteBegin(res)
  \/ WorkerCompleteStamp
  \/ \E res \in {r \in ForwardResults : r.exit_code # None} : WorkerCompleteCode(res)
  \/ \E res \in {r \in ForwardResults : r.exit_code # None} : WorkerCompleteMessage(res)
  \/ WorkerCompleteEnd

\* The worker thread is scheduled and forward_experiment returns while the
\* hub is up, and a handler that has begun ends.  Once the stop signal is
\* set the worker has the 5 s of the join and may take no further step; the
\* process ends.
SpecWorker ==
  /\ Init
  /\ [][NextWorker]_vars
  /\ WF_vars(AddEnd)
  /\ WF_vars(CancelEnd)
  /\ WF_vars(~StopSet /\ WorkerStep)
  /\ WF_vars(\E torn \in BOOLEAN : ProcessEnds(torn))

\* ------------------------------------------------------- a failing disk
\* The statements of _save_queue's body, in the order they run: the
\* dictionary built from to_dict, open(self.queue_file, 'w'), json.dump.
SaveStatements == <<"data", "open", "dump">>

\* Where the statement `at` comes in the body.
SaveStatementIndex(at) ==
  CHOOSE i \in 1..Len(SaveStatements) : SaveStatements[i] = at

\* The statements at which a write to the disk can fail.
SaveFailures == {"open", "dump"}

\* The try block of _save_queue holding json.dump only.
SaveTryBlockDumpOnly == {"dump"}

\* The statements of _save_queue that are inside its try block.
SaveTryBlock == {"data", "open", "dump"}

\* QueueManager._save_queue when the statement `at` raises: the file
\* afterwards (the old contents when open() failed; truncated and torn when
\* json.dump failed), and whether the exception leaves the method: the
\* except clause catches what the try block raises, and logs it.
save_queue_failing(file, at) ==
  [file |-> IF SaveStatementIndex(at) > SaveStatementIndex("open")
            THEN TornFile ELSE file,
   raised |-> at \notin SaveTryBlock]

\* self._save_queue() failing at `at`, followed by the method's return
\* statement: the file, and in lastOp the call (the method, its experiment
\* id, reorder's new_position) and what the caller gets: the value
\* returned, or the exception that left _save_queue, in which case the
\* return statement is not reached.
SaveFails(op, id, position, ret, at) ==
  LET w == save_queue_failing(queue_file, at)
  IN /\ queue_file' = w.file
     /\ lastOp' = [op |-> op, id |-> id, position |-> position,
                   raised |-> w.raised,
                   returned |-> IF w.raised THEN None ELSE Some(ret)]

\* add_experiment, statement by statement, with its save failing.
DiskFailsAdd(user, script, at) ==
  LET user_experiments ==
        {id \in DOMAIN experiments :
           /\ experiments[id].user_session_id = user
           /\ experiments[id].status \in {"QUEUED", "RUNNING"}}
      experiment_id == issued + 1
  IN /\ issued < MaxTimedJobs
     /\ ~(Cardinality(user_experiments) >= max_experiments_per_user)
     /\ experiments' =
          [id \in DOMAIN experiments \cup {experiment_id} |->
             IF id = experiment_id
             THEN NewExperiment(experiment_id, user, script, clock)
             ELSE experiments[id]]
     /\ queue_order' = Append(queue_order, experiment_id)
     /\ SaveFails("add_experiment", experiment_id, 0,
                  [success |-> TRUE, experiment_id |-> experiment_id,
                   queue_position |->
                     Cardinality({i \in 1..Len(queue_order') :
                                    /\ queue_order'[i] \in DOMAIN experiments'
                                    /\ experiments'[queue_order'[i]].status
                                         \in {"QUEUED", "PAUSED"}})],
                  at)
     /\ issued' = issued + 1
     /\ UNCHANGED <<clock, ticks, pc, next_exp, node_calls, nodevars>>

\* cancel_experiment, statement by statement, with its save failing.
DiskFailsCancel(id, at) ==
  /\ id \in DOMAIN experiments
  /\ experiments[id].status \in {"QUEUED", "RUNNING"}
  /\ experiments' = [experiments EXCEPT ![id].status = "CANCELLED",
                                        ![id].completed_at = Some(clock)]
  /\ SaveFails("cancel_experiment", id, 0, TRUE, at)
  /\ UNCHANGED <<queue_order, clock, ticks, issued, pc, next_exp, node_calls,
                 nodevars>>

\* pause_experiment, statement by statement, with its save failing.
DiskFailsPause(id, at) ==
  /\ id \in DOMAIN experiments
  /\ experiments[id].status = "QUEUED"
  /\ experiments' = [experiments EXCEPT ![id].status = "PAUSED"]
  /\ SaveFails("pause_experiment", id, 0, TRUE, at)
  /\ UNCHANGED <<queue_order, clock, ticks, issued, pc, next_exp, node_calls,
                 nodevars>>

\* resume_experiment, statement by statement, with its save failing.
DiskFailsResume(id, at) ==
  /\ id \in DOMAIN experiments
  /\ experiments[id].status = "PAUSED"
  /\ experiments' = [experiments EXCEPT ![id].status = "QUEUED"]
  /\ SaveFails("resume_experiment", id, 0, TRUE, at)
  /\ UNCHANGED <<queue_order, clock, ticks, issued, pc, next_exp, node_calls,
                 nodevars>>

\* reorder_experiment, statement by statement, with its save failing:
\* remove, the clamp against the length of the shortened list, insert.
DiskFailsReorder(id, new_position, at) ==
  /\ id \in Elems(queue_order)
  /\ LET shortened == ListRemove(queue_order, id)
         clamped == IF new_position > Len(shortened) THEN Len(shortened)
                    ELSE IF new_position < 0 THEN 0
                    ELSE new_position
     IN queue_order' = SubSeq(shortened, 1, clamped) \o <<id>>
                         \o SubSeq(shortened, clamped + 1, Len(shortened))
  /\ SaveFails("reorder_experiment", id, new_position, TRUE, at)
  /\ UNCHANGED <<experiments, clock, ticks, issued, pc, next_exp, node_calls,
                 nodevars>>

\* run_now, statement by statement, with its save failing.
DiskFailsRunNow(id, at) ==
  /\ id \in DOMAIN experiments
  /\ experiments[id].status \in {"QUEUED", "PAUSED"}
  /\ experiments' = IF experiments[id].status = "PAUSED"
                    THEN [experiments EXCEPT ![id].status = "QUEUED"]
                    ELSE experiments
  /\ queue_order' = <<id>> \o (IF id \in Elems(queue_order)
                                THEN ListRemove(queue_order, id)
                                ELSE queue_order)
  /\ SaveFails("run_now", id, 0, TRUE, at)
  /\ UNCHANGED <<clock, ticks, issued, pc, next_exp, node_calls, nodevars>>

\* The worker's start_experiment, statement by statement, with its save
\* failing; the worker does not look at the value returned.
DiskFailsStart(at) ==
  /\ pc = "start"
  /\ next_exp[1] \in DOMAIN experiments
  /\ experiments[next_exp[1]].status = "QUEUED"
  /\ experiments' = [experiments EXCEPT ![next_exp[1]].status = "RUNNING",
                                        ![next_exp[1]].started_at = Some(clock)]
  /\ SaveFails("start_experiment", next_exp[1], 0, TRUE, at)
  /\ pc' = "post"
  /\ UNCHANGED <<queue_order, clock, ticks, issued, next_exp, node_calls,
                 nodevars>>

\* The worker's complete_experiment for the result res, statement by
\* statement, with its save failing; the method returns None.
DiskFailsComplete(res, at) ==
  /\ pc = "forward"
  /\ next_exp[1] \in DOMAIN experiments
  /\ experiments' =
       [experiments EXCEPT
          ![next_exp[1]].status = IF WorkerExitCode(res) = Some(0)
                                  THEN "COMPLETED" ELSE "FAILED",
          ![next_exp[1]].completed_at = Some(clock),
          ![next_exp[1]].exit_code = WorkerExitCode(res),
          ![next_exp[1]].error_message = WorkerErrorMessage(res)]
  /\ SaveFails("complete_experiment", next_exp[1], 0, None, at)
  /\ pc' = "sleep"
  /\ next_exp' = None
  /\ UNCHANGED <<queue_order, clock, ticks, issued, node_calls, nodevars>>

\* The hub with one submitter on a disk whose writes can fail.
NextDisk ==
  \/ \E script \in Scripts : issued < MaxTimedJobs /\ QueueExperiment("u1", script)
  \/ \E script \in Scripts, at \in SaveFailures : DiskFailsAdd("u1", script, at)
  \/ \E id \in Ids, at \in SaveFailures : DiskFailsCancel(id, at)
  \/ \E id \in Ids, at \in SaveFailures : DiskFailsPause(id, at)
  \/ \E id \in Ids, at \in SaveFailures : DiskFailsResume(id, at)
  \/ \E id \in Ids, new_position \in Positions, at \in SaveFailures :
        DiskFailsReorder(id, new_position, at)
  \/ \E id \in Ids, at \in SaveFailures : DiskFailsRunNow(id, at)
  \/ WorkerPoll
  \/ WorkerStart
  \/ WorkerPost
  \/ \E at \in SaveFailures : DiskFailsStart(at)
  \/ \E res \in {r \in ForwardResults : r.exit_code # None} : WorkerComplete(res)
  \/ \E res \in {r \in ForwardResults : r.exit_code # None}, at \in SaveFailures :
        DiskFailsComplete(res, at)

SpecDisk == Init /\ [][NextDisk]_vars

\* ------------------------------------------------------ a damaged file
\* Something outside the hub leaves one job record of the queue file with a
\* status that is no value of ExperimentStatus.
DamageRecord(id) ==
  /\ queue_file.exists
  /\ "torn" \notin DOMAIN queue_file
  /\ id \in DOMAIN queue_file.experiments
  /\ ~from_dict_raises(FileData(queue_file).experiments[id])
  /\ queue_file' = [queue_file EXCEPT !.experiments[id].status = JsonString("bogus")]
  /\ lastOp' = Other
  /\ UNCHANGED <<experiments, queue_order, clock, ticks, issued, pc, next_exp,
                 node_calls, nodevars>>

\* Something outside the hub removes the queue file.
RemoveFile ==
  /\ queue_file.exists
  /\ queue_file' = NoFile
  /\ lastOp' = Other
  /\ UNCHANGED <<experiments, queue_order, clock, ticks, issued, pc, next_exp,
                 node_calls, nodevars>>

\* The hub with one submitter, restarts, kills during a save, and a queue
\* file that can be damaged or removed.
NextLoad ==
  \/ \E script \in Scripts : QueueExperiment("u1", script)
  \/ \E id \in Ids : CancelExperiment(id)
  \/ WorkerPoll
  \/ WorkerStart
  \/ WorkerPost
  \/ \E res \in {r \in ForwardResults : r.success} : WorkerComplete(res)
  \/ \E id \in Ids : DamageRecord(id)
  \/ RemoveFile
  \/ CrashInSave
  \/ Restart

SpecLoad == Init /\ [][NextLoad]_vars

\* ------------------------------------------------------------- the node
\* bioreactor-node-v3's experiments API: the handlers that write the
\* containers table or the container runtime (start, status, stop, delete)
\* and the run_experiment_container threads.  The handlers that only read
\* (logs, results, download, list) are left out.  The handlers are
\* coroutines without an await, so the event loop runs one to its end before
\* the next; the threads go on meanwhile.  The ids the node is asked to run.
NodeIds == 1..MaxNodeIds

\* Exit statuses of a sandbox's process.
StatusCodes == {0, 1}

\* Exit statuses of a sandbox's process that container.stop ends: the
\* script's own when it handles the signal, 137 when it is killed.
StopCodes == {0, 137}

\* f with [id |-> v] added or replaced.
Put(f, id, v) == [i \in DOMAIN f \cup {id} |-> IF i = id THEN v ELSE f[i]]

\* f without id.
Drop(f, id) == [i \in DOMAIN f \ {id} |-> f[i]]

\* The hub's variables, which the node does not touch.
hubvars == <<experiments, queue_order, queue_file, clock, ticks, issued, pc,
             next_exp, node_calls, lastOp, values_len>>

\* A container created with auto_remove=True by thread `owner`.
NewContainerAutoRemove(owner) ==
  [state |-> "created", exit_code |-> None, auto_remove |-> TRUE, owner |-> owner]

\* What docker_client.containers.create(..., auto_remove=False) creates when
\* thread `owner` calls it.
NewContainer(owner) ==
  [state |-> "created", exit_code |-> None, auto_remove |-> FALSE, owner |-> owner]

\* The table entry start_experiment writes; container is None or the
\* thread whose container object is stored; end_time, exit_code and
\* error_message are keys the entry does not have yet.
NewEntry ==
  [status |-> "starting", container |-> None, end_time |-> FALSE,
   exit_code |-> None, error_message |-> None]

\* A run_experiment_container thread for experiment id at `at`, with its
\* locals: whether container.logs has been called, and result["StatusCode"].
Thread(id, at, logs_tried, result) ==
  [id |-> id, at |-> at, logs_tried |-> logs_tried, result |-> result]

\* Thread t is at `at`.
ThreadAt(t, at) == t \in DOMAIN run_pc /\ run_pc[t].at = at

\* The container thread t created is in the runtime.
ContainerOf(t) ==
  /\ run_pc[t].id \in DOMAIN docker
  /\ docker[run_pc[t].id].owner = t

\* The event loop is between two requests.
LoopIdle == IF node_req = None THEN TRUE ELSE node_req.at = "answered"

\* The event loop with request `op` for id at `at`, and the handler's
\* locals: the status code of the answer, the container object read from
\* the entry (the thread that made it), the exit code read from
\* inspect_container, and the fields of the answer read so far.
Request(op, id, at, code) ==
  [op |-> op, id |-> id, at |-> at, code |-> code, container |-> None,
   inspected |-> None, status |-> None, end_time |-> FALSE, exit_code |-> None,
   error_message |-> None]

\* The handler is at `at`.
RequestAt(op, at) ==
  IF node_req = None THEN FALSE ELSE node_req.op = op /\ node_req.at = at

\* Thread t's id has an entry in the table; without one,
\* containers[experiment_id] raises KeyError.
HasEntry(t) == run_pc[t].id \in DOMAIN containers

\* POST /api/experiments/start for id when initialize_docker failed:
\* docker_client is None and the handler raises HTTPException(503).
NodeStartUnavailable(id) ==
  /\ LoopIdle
  /\ ~docker_client
  /\ node_req' = Request("start", id, "answered", Some(503))
  /\ UNCHANGED <<hubvars, containers, docker, run_pc, docker_client>>

\* POST /api/experiments/start for id when the experiment directory or the
\* script file cannot be written: the exception leaves the handler before
\* the table is touched, and the request is answered 500.
NodeStartNoDirectory(id) ==
  /\ LoopIdle
  /\ docker_client
  /\ node_req' = Request("start", id, "answered", Some(500))
  /\ UNCHANGED <<hubvars, containers, docker, run_pc, docker_client>>

\* POST /api/experiments/start for id when the thread cannot be started: the
\* table entry is written, thread.start() raises, and the handler's except
\* clause raises HTTPException(500).
NodeStartNoThread(id) ==
  /\ LoopIdle
  /\ docker_client
  /\ containers' = Put(containers, id, NewEntry)
  /\ node_req' = Request("start", id, "answered", Some(500))
  /\ UNCHANGED <<hubvars, docker, run_pc, docker_client>>

\* POST /api/experiments/start for id: the table entry is written, replacing
\* any entry of that id, and a run_experiment_container thread is started.
NodeStart(id) ==
  /\ LoopIdle
  /\ docker_client
  /\ Len(run_pc) < MaxThreads
  /\ containers' = Put(containers, id, NewEntry)
  /\ run_pc' = Append(run_pc, Thread(id, "begin", FALSE, None))
  /\ node_req' = Request("start", id, "answered", Some(200))
  /\ UNCHANGED <<hubvars, docker, docker_client>>

\* containers[experiment_id]["status"] = "running"
RunBegin(t) ==
  /\ ThreadAt(t, "begin")
  /\ containers' = IF HasEntry(t)
                   THEN [containers EXCEPT ![run_pc[t].id].status = "running"]
                   ELSE containers
  /\ run_pc' = [run_pc EXCEPT ![t].at = IF HasEntry(t) THEN "create"
                                        ELSE "failed_status"]
  /\ UNCHANGED <<hubvars, docker, docker_client, node_req>>

\* docker_client.containers.create(..., name=f"experiment-{experiment_id}"),
\* which succeeds or raises; it raises when a container of that name exists.
RunCreate(t, ok) ==
  /\ ThreadAt(t, "create")
  /\ ok => run_pc[t].id \notin DOMAIN docker
  /\ docker' = IF ok THEN Put(docker, run_pc[t].id, NewContainer(t)) ELSE docker
  /\ run_pc' = [run_pc EXCEPT ![t].at = IF ok THEN "start" ELSE "failed_status"]
  /\ UNCHANGED <<hubvars, containers, docker_client, node_req>>

\* container.start(), which succeeds or raises.
RunStart(t, ok) ==
  /\ ThreadAt(t, "start")
  /\ ok => ContainerOf(t)
  /\ docker' = IF ok THEN [docker EXCEPT ![run_pc[t].id].state = "running"]
               ELSE docker
  /\ run_pc' = [run_pc EXCEPT ![t].at = IF ok THEN "store" ELSE "failed_status"]
  /\ UNCHANGED <<hubvars, containers, docker_client, node_req>>

\* containers[experiment_id]["container"] = container
RunStore(t) ==
  /\ ThreadAt(t, "store")
  /\ containers' = IF HasEntry(t)
                   THEN [containers EXCEPT ![run_pc[t].id].container = Some(t)]
                   ELSE containers
  /\ run_pc' = [run_pc EXCEPT ![t].at = IF HasEntry(t) THEN "wait"
                                        ELSE "failed_status"]
  /\ UNCHANGED <<hubvars, docker, docker_client, node_req>>

\* The sandbox's process ends with status `code`; the runtime removes the
\* container at once when it was created with auto_remove.
ContainerExits(id, code) ==
  /\ id \in DOMAIN docker
  /\ docker[id].state = "running"
  /\ docker' = IF docker[id].auto_remove THEN Drop(docker, id)
               ELSE [docker EXCEPT ![id].state = "exited", ![id].exit_code = Some(code)]
  /\ UNCHANGED <<hubvars, containers, run_pc, docker_client, node_req>>

\* result = container.wait() returns; it raises when the container is gone.
RunWait(t) ==
  /\ ThreadAt(t, "wait")
  /\ IF ContainerOf(t)
     THEN /\ docker[run_pc[t].id].state = "exited"
          /\ run_pc' = [run_pc EXCEPT ![t].at = "logs",
                                      ![t].result = docker[run_pc[t].id].exit_code]
     ELSE run_pc' = [run_pc EXCEPT ![t].at = "failed_status"]
  /\ UNCHANGED <<hubvars, containers, docker, docker_client, node_req>>

\* container.logs(...) and the write of container_logs.txt, inside their
\* own try: done or failed, the thread goes on.
RunLogs(t) ==
  /\ ThreadAt(t, "logs")
  /\ run_pc' = [run_pc EXCEPT ![t].at = "remove", ![t].logs_tried = TRUE]
  /\ UNCHANGED <<hubvars, containers, docker, docker_client, node_req>>

\* container.remove(force=True), inside its own try: the container is
\* removed, or the call fails and is logged.
RunRemove(t, ok) ==
  /\ ThreadAt(t, "remove")
  /\ ok => ContainerOf(t)
  /\ docker' = IF ok THEN Drop(docker, run_pc[t].id) ELSE docker
  /\ run_pc' = [run_pc EXCEPT ![t].at = "update_status"]
  /\ UNCHANGED <<hubvars, containers, docker_client, node_req>>

\* containers[experiment_id]["status"] =
\*   "completed" if result["StatusCode"] == 0 else "failed"
RunUpdateStatus(t) ==
  /\ ThreadAt(t, "update_status")
  /\ containers' = IF HasEntry(t)
                   THEN [containers EXCEPT ![run_pc[t].id].status =
                           IF run_pc[t].result = Some(0) THEN "completed"
                           ELSE "failed"]
                   ELSE containers
  /\ run_pc' = [run_pc EXCEPT ![t].at = IF HasEntry(t) THEN "update_end_time"
                                        ELSE "failed_status"]
  /\ UNCHANGED <<hubvars, docker, docker_client, node_req>>

\* containers[experiment_id]["end_time"] = datetime.now()
RunUpdateEndTime(t) ==
  /\ ThreadAt(t, "update_end_time")
  /\ containers' = IF HasEntry(t)
                   THEN [containers EXCEPT ![run_pc[t].id].end_time = TRUE]
                   ELSE containers
  /\ run_pc' = [run_pc EXCEPT ![t].at = IF HasEntry(t) THEN "update_exit_code"
                                        ELSE "failed_status"]
  /\ UNCHANGED <<hubvars, docker, docker_client, node_req>>

\* containers[experiment_id]["exit_code"] = result["StatusCode"]; the thread
\* ends here when the status code is 0.
RunUpdateExitCode(t) ==
  /\ ThreadAt(t, "update_exit_code")
  /\ containers' = IF HasEntry(t)
                   THEN [containers EXCEPT ![run_pc[t].id].exit_code = run_pc[t].result]
                   ELSE containers
  /\ run_pc' = [run_pc EXCEPT ![t].at = IF ~HasEntry(t) THEN "failed_status"
                                        ELSE IF run_pc[t].result = Some(0)
                                        THEN "done" ELSE "update_message"]
  /\ UNCHANGED <<hubvars, docker, docker_client, node_req>>

\* containers[experiment_id]["error_message"] = the logs' first 500
\* characters, or "Container failed with no logs"; a KeyError here is raised
\* again by the assignment of the inner except clause and reaches the outer
\* one.
RunUpdateMessage(t) ==
  /\ ThreadAt(t, "update_message")
  /\ containers' = IF HasEntry(t)
                   THEN [containers EXCEPT
                           ![run_pc[t].id].error_message = Some("failed")]
                   ELSE containers
  /\ run_pc' = [run_pc EXCEPT ![t].at = IF HasEntry(t) THEN "done"
                                        ELSE "failed_status"]
  /\ UNCHANGED <<hubvars, docker, docker_client, node_req>>

\* The except clause: containers[experiment_id]["status"] = "failed".  A
\* KeyError in the except clause ends the thread.
RunFailedStatus(t) ==
  /\ ThreadAt(t, "failed_status")
  /\ containers' = IF HasEntry(t)
                   THEN [containers EXCEPT ![run_pc[t].id].status = "failed"]
                   ELSE containers
  /\ run_pc' = [run_pc EXCEPT ![t].at = IF HasEntry(t) THEN "failed_end_time"
                                        ELSE "died"]
  /\ UNCHANGED <<hubvars, docker, docker_client, node_req>>

\* The except clause: containers[experiment_id]["end_time"] = datetime.now()
RunFailedEndTime(t) ==
  /\ ThreadAt(t, "failed_end_time")
  /\ containers' = IF HasEntry(t)
                   THEN [containers EXCEPT ![run_pc[t].id].end_time = TRUE]
                   ELSE containers
  /\ run_pc' = [run_pc EXCEPT ![t].at = IF HasEntry(t) THEN "failed_message"
                                        ELSE "died"]
  /\ UNCHANGED <<hubvars, docker, docker_client, node_req>>

\* The except clause: containers[experiment_id]["error_message"] = str(e)
RunFailedMessage(t) ==
  /\ ThreadAt(t, "failed_message")
  /\ containers' = IF HasEntry(t)
                   THEN [containers EXCEPT
                           ![run_pc[t].id].error_message = Some("failed")]
                   ELSE containers
  /\ run_pc' = [run_pc EXCEPT ![t].at = IF HasEntry(t) THEN "done" ELSE "died"]
  /\ UNCHANGED <<hubvars, docker, docker_client, node_req>>

\* The container object stored in the table entry of id is in the runtime.
StoredContainerExists(id) ==
  /\ containers[id].container # None
  /\ id \in DOMAIN docker
  /\ docker[id].owner = containers[id].container[1]

\* GET /api/experiments/{experiment_id}/status for id: 404 when the table
\* has no entry; container_info = containers[experiment_id] and the test
\* whether a container is stored.
NodeStatusBegin(id) ==
  /\ LoopIdle
  /\ node_req' =
       IF id \notin DOMAIN containers
       THEN Request("status", id, "answered", Some(404))
       ELSE IF containers[id].container # None
       THEN Request("status", id, "reload", None)
       ELSE Request("status", id, "read_status", None)
  /\ UNCHANGED <<hubvars, containers, docker, run_pc, docker_client>>

\* container_info["container"].reload(), a call to the runtime during which
\* the threads go on; it raises when the container is gone or the runtime
\* fails, and the except clause logs it.
NodeStatusReload(ok) ==
  /\ RequestAt("status", "reload")
  /\ ok => StoredContainerExists(node_req.id)
  /\ node_req' = [node_req EXCEPT !.at = IF ok THEN "test" ELSE "read_status"]
  /\ UNCHANGED <<hubvars, containers, docker, run_pc, docker_client>>

\* if container_info["status"] == "running"
NodeStatusTest ==
  /\ RequestAt("status", "test")
  /\ node_req' = [node_req EXCEPT !.at = IF containers[node_req.id].status = "running"
                                        THEN "inspect" ELSE "read_status"]
  /\ UNCHANGED <<hubvars, containers, docker, run_pc, docker_client>>

\* docker_client.api.inspect_container(container_info["container"].id),
\* which raises when the container now stored is gone or the runtime fails,
\* and the test whether the runtime says exited.
NodeStatusInspect(ok) ==
  /\ RequestAt("status", "inspect")
  /\ ok => StoredContainerExists(node_req.id)
  /\ node_req' =
       IF ok /\ docker[node_req.id].state = "exited"
       THEN [node_req EXCEPT !.at = "set_status",
                             !.inspected = docker[node_req.id].exit_code]
       ELSE [node_req EXCEPT !.at = "read_status"]
  /\ UNCHANGED <<hubvars, containers, docker, run_pc, docker_client>>

\* container_info["status"] = "completed"
NodeStatusSetStatus ==
  /\ RequestAt("status", "set_status")
  /\ containers' = [containers EXCEPT ![node_req.id].status = "completed"]
  /\ node_req' = [node_req EXCEPT !.at = "set_end_time"]
  /\ UNCHANGED <<hubvars, docker, run_pc, docker_client>>

\* container_info["end_time"] = datetime.now()
NodeStatusSetEndTime ==
  /\ RequestAt("status", "set_end_time")
  /\ containers' = [containers EXCEPT ![node_req.id].end_time = TRUE]
  /\ node_req' = [node_req EXCEPT !.at = "set_exit_code"]
  /\ UNCHANGED <<hubvars, docker, run_pc, docker_client>>

\* container_info["exit_code"] = container_data['State']['ExitCode']
NodeStatusSetExitCode ==
  /\ RequestAt("status", "set_exit_code")
  /\ containers' = [containers EXCEPT ![node_req.id].exit_code = node_req.inspected]
  /\ node_req' = [node_req EXCEPT !.at = "read_status"]
  /\ UNCHANGED <<hubvars, docker, run_pc, docker_client>>

\* The answer's "status": container_info["status"]
NodeStatusReadStatus ==
  /\ RequestAt("status", "read_status")
  /\ node_req' = [node_req EXCEPT !.at = "read_end_time",
                                  !.status = Some(containers[node_req.id].status)]
  /\ UNCHANGED <<hubvars, containers, docker, run_pc, docker_client>>

\* The answer's "end_time": set or None
NodeStatusReadEndTime ==
  /\ RequestAt("status", "read_end_time")
  /\ node_req' = [node_req EXCEPT !.at = "read_exit_code",
                                  !.end_time = containers[node_req.id].end_time]
  /\ UNCHANGED <<hubvars, containers, docker, run_pc, docker_client>>

\* The answer's "exit_code": container_info.get("exit_code")
NodeStatusReadExitCode ==
  /\ RequestAt("status", "read_exit_code")
  /\ node_req' = [node_req EXCEPT !.at = "read_error_message",
                                  !.exit_code = containers[node_req.id].exit_code]
  /\ UNCHANGED <<hubvars, containers, docker, run_pc, docker_client>>

\* The answer's "error_message": container_info.get("error_message"); the
\* request is answered 200.
NodeStatusReadErrorMessage ==
  /\ RequestAt("status", "read_error_message")
  /\ node_req' = [node_req EXCEPT !.at = "answered", !.code = Some(200),
                                  !.error_message = containers[node_req.id].error_message]
  /\ UNCHANGED <<hubvars, containers, docker, run_pc, docker_client>>

\* The runtime after container.stop on the container of id: a running
\* container's process ends with status `code`; any other is left as it is.
Stopped(id, code) ==
  IF docker[id].state # "running" THEN docker
  ELSE IF docker[id].auto_remove THEN Drop(docker, id)
  ELSE [docker EXCEPT ![id].state = "exited", ![id].exit_code = Some(code)]

\* The container object the handler holds is in the runtime.
HeldContainerExists ==
  /\ node_req.id \in DOMAIN docker
  /\ docker[node_req.id].owner = node_req.container[1]

\* POST /api/experiments/{experiment_id}/stop for id: 404 when the table has
\* no entry; with no container stored the answer is 200 "No running
\* container to stop".
NodeStopBegin(id) ==
  /\ LoopIdle
  /\ node_req' =
       IF id \notin DOMAIN containers
       THEN Request("stop", id, "answered", Some(404))
       ELSE IF containers[id].container = None
       THEN Request("stop", id, "answered", Some(200))
       ELSE [Request("stop", id, "stop", None) EXCEPT
               !.container = containers[id].container]
  /\ UNCHANGED <<hubvars, containers, docker, run_pc, docker_client>>

\* container.stop(timeout=30), a call to the runtime during which the
\* threads go on; when it raises (the container is gone, the runtime fails)
\* the handler answers 500.
NodeStopCall(ok, code) ==
  /\ RequestAt("stop", "stop")
  /\ ok => HeldContainerExists
  /\ docker' = IF ok THEN Stopped(node_req.id, code) ELSE docker
  /\ node_req' = IF ok THEN [node_req EXCEPT !.at = "stop_status"]
                 ELSE [node_req EXCEPT !.at = "answered", !.code = Some(500)]
  /\ UNCHANGED <<hubvars, containers, run_pc, docker_client>>

\* container_info["status"] = "stopped"
NodeStopSetStatus ==
  /\ RequestAt("stop", "stop_status")
  /\ containers' = [containers EXCEPT ![node_req.id].status = "stopped"]
  /\ node_req' = [node_req EXCEPT !.at = "stop_end_time"]
  /\ UNCHANGED <<hubvars, docker, run_pc, docker_client>>

\* container_info["end_time"] = datetime.now(); the answer is 200
\* "Experiment stopped".
NodeStopSetEndTime ==
  /\ RequestAt("stop", "stop_end_time")
  /\ containers' = [containers EXCEPT ![node_req.id].end_time = TRUE]
  /\ node_req' = [node_req EXCEPT !.at = "answered", !.code = Some(200)]
  /\ UNCHANGED <<hubvars, docker, run_pc, docker_client>>

\* DELETE /api/experiments/{experiment_id} for id: 404 when the table has no
\* entry; the test whether a container is stored.
NodeDeleteBegin(id) ==
  /\ LoopIdle
  /\ node_req' =
       IF id \notin DOMAIN containers
       THEN Request("delete", id, "answered", Some(404))
       ELSE IF containers[id].container = None
       THEN Request("delete", id, "delete_entry", None)
       ELSE [Request("delete", id, "delete_stop", None) EXCEPT
               !.container = containers[id].container]
  /\ UNCHANGED <<hubvars, containers, docker, run_pc, docker_client>>

\* container.stop(timeout=10) inside its own try: done, or failed and
\* logged.
NodeDeleteStop(ok, code) ==
  /\ RequestAt("delete", "delete_stop")
  /\ ok => HeldContainerExists
  /\ docker' = IF ok THEN Stopped(node_req.id, code) ELSE docker
  /\ node_req' = [node_req EXCEPT !.at = "delete_entry"]
  /\ UNCHANGED <<hubvars, containers, run_pc, docker_client>>

\* shutil.rmtree of the experiment directory, inside its own try, and
\* del containers[experiment_id]; the answer is 200 "Experiment deleted".
\* The container stays in the runtime and the thread goes on.
NodeDeleteEntry ==
  /\ RequestAt("delete", "delete_entry")
  /\ containers' = Drop(containers, node_req.id)
  /\ node_req' = [node_req EXCEPT !.at = "answered", !.code = Some(200)]
  /\ UNCHANGED <<hubvars, docker, run_pc, docker_client>>

\* The node service stops and starts again: the containers table is empty,
\* its threads and the request it was serving are gone, and
\* initialize_docker succeeds or fails; the runtime keeps the containers,
\* which no thread and no table entry refers to any more.
NodeRestart(ok) ==
  /\ containers' = <<>>
  /\ run_pc' = <<>>
  /\ node_req' = None
  /\ docker_client' = ok
  /\ docker' = [id \in DOMAIN docker |-> [docker[id] EXCEPT !.owner = 0]]
  /\ UNCHANGED hubvars

\* A step of a run_experiment_container thread.
RunThread(t) ==
  \/ RunBegin(t)
  \/ \E ok \in BOOLEAN : RunCreate(t, ok)
  \/ \E ok \in BOOLEAN : RunStart(t, ok)
  \/ RunStore(t)
  \/ RunWait(t)
  \/ RunLogs(t)
  \/ \E ok \in BOOLEAN : RunRemove(t, ok)
  \/ RunUpdateStatus(t)
  \/ RunUpdateEndTime(t)
  \/ RunUpdateExitCode(t)
  \/ RunUpdateMessage(t)
  \/ RunFailedStatus(t)
  \/ RunFailedEndTime(t)
  \/ RunFailedMessage(t)

\* A step of the status handler after its first.
NodeStatusStep ==
  \/ \E ok \in BOOLEAN : NodeStatusReload(ok)
  \/ NodeStatusTest
  \/ \E ok \in BOOLEAN : NodeStatusInspect(ok)
  \/ NodeStatusSetStatus
  \/ NodeStatusSetEndTime
  \/ NodeStatusSetExitCode
  \/ NodeStatusReadStatus
  \/ NodeStatusReadEndTime
  \/ NodeStatusReadExitCode
  \/ NodeStatusReadErrorMessage

\* A step of the stop handler after its first.
NodeStopStep ==
  \/ \E ok \in BOOLEAN, code \in StopCodes : NodeStopCall(ok, code)
  \/ NodeStopSetStatus
  \/ NodeStopSetEndTime

\* A step of the delete handler after its first.
NodeDeleteStep ==
  \/ \E ok \in BOOLEAN, code \in StopCodes : NodeDeleteStop(ok, code)
  \/ NodeDeleteEntry

\* The node with at most MaxThreads start requests accepted between two
\* restarts.
NextBackend ==
  \/ \E id \in NodeIds : NodeStartUnavailable(id)
  \/ \E id \in NodeIds : NodeStartNoDirectory(id)
  \/ \E id \in NodeIds : NodeStartNoThread(id)
  \/ \E id \in NodeIds : NodeStart(id)
  \/ \E t \in 1..MaxThreads : RunThread(t)
  \/ \E id \in NodeIds, code \in StatusCodes : ContainerExits(id, code)
  \/ \E id \in NodeIds : NodeStatusBegin(id)
  \/ NodeStatusStep
  \/ \E id \in NodeIds : NodeStopBegin(id)
  \/ NodeStopStep
  \/ \E id \in NodeIds : NodeDeleteBegin(id)
  \/ NodeDeleteStep
  \/ \E ok \in BOOLEAN : NodeRestart(ok)

SpecBackend == InitUntraced /\ [][NextBackend]_vars

\* The hub with one submitter, reordering, a clock that advances and
\* restarts; no record of the handlers' steps, no pausing or cancelling,
\* runs that succeed.
NextOrder ==
  \/ \E script \in Scripts : QueueExperiment("u1", script)
  \/ \E id \in Ids, new_position \in Positions : ReorderExperiment(id, new_position)
  \/ \E id \in Ids : RunNow(id)
  \/ WorkerPoll
  \/ WorkerStart
  \/ WorkerPost
  \/ \E res \in {r \in ForwardResults : r.success} : WorkerComplete(res)
  \/ Tick
  \/ Restart

SpecOrder == InitUntraced /\ [][NextOrder]_vars

\* The hub with one submitter and every queue operation, never restarted;
\* the worker thread is scheduled and forward_experiment returns.
NextLive ==
  \/ \E script \in Scripts : QueueExperiment("u1", script)
  \/ \E id \in Ids : CancelExperiment(id)
  \/ \E id \in Ids : PauseExperiment(id)
  \/ \E id \in Ids : ResumeExperiment(id)
  \/ \E id \in Ids, new_position \in Positions : ReorderExperiment(id, new_position)
  \/ \E id \in Ids : RunNow(id)
  \/ WorkerPoll
  \/ WorkerStart
  \/ WorkerPost
  \/ \E res \in ForwardResults : WorkerComplete(res)

SpecLive ==
  /\ InitUntraced
  /\ [][NextLive]_vars
  /\ WF_vars(WorkerPoll)
  /\ WF_vars(WorkerStart)
  /\ WF_vars(WorkerPost)
  /\ WF_vars(\E res \in ForwardResults : WorkerComplete(res))

\* ================================================================= claims
Status(id) == experiments[id].status

\* ---------------------------------------------------------------------- C1
\* C1: in every reachable state at most one job of the job map has status
\* Running.
AtMostOneRunning ==
  Cardinality({id \in DOMAIN experiments : Status(id) = "RUNNING"}) <= 1

\* A job is being run while another one waits.
AtMostOneRunningWitness ==
  /\ pc = "forward"
  /\ \E a, b \in DOMAIN experiments : Status(a) = "RUNNING" /\ Status(b) = "QUEUED"

\* ---------------------------------------------------------------------- C2
StateMachineEdges ==
  {<<"QUEUED", "RUNNING">>, <<"RUNNING", "COMPLETED">>, <<"RUNNING", "FAILED">>,
   <<"QUEUED", "CANCELLED">>, <<"RUNNING", "CANCELLED">>, <<"QUEUED", "PAUSED">>,
   <<"PAUSED", "QUEUED">>}

\* C2: every status change of a job follows an edge of the state machine, a
\* job is created Queued, and a Completed, Failed or Cancelled job never
\* changes status again (no edge leaves a terminal status).
StatusFollowsStateMachine ==
  [][\A id \in DOMAIN experiments' :
       IF id \in DOMAIN experiments
       THEN \/ experiments'[id].status = experiments[id].status
            \/ <<experiments[id].status, experiments'[id].status>> \in StateMachineEdges
       ELSE experiments'[id].status = "QUEUED"]_vars

\* ---------------------------------------------------------------------- C3
\* C3: for every submitter, the number of that submitter's jobs with status
\* Queued or Running is at most the quota.
QuotaRespected ==
  \A user \in Users : UserLoad(experiments, user) <= max_experiments_per_user

\* ---------------------------------------------------------------------- C4
\* C4: an enqueue for a submitter who already has N or more jobs in
\* {Queued, Running} is refused and leaves the job map, the order sequence
\* and the queue file as they were.  (Under SpecCalls every enqueue is by
\* "u1", and a step that leaves lastOp at "add" or "add_refused" is an
\* enqueue.)
RefusedEnqueueChangesNothing ==
  [][(/\ lastOp'.op \in {"add", "add_refused"}
      /\ UserLoad(experiments, "u1") >= max_experiments_per_user)
     => (/\ lastOp'.op = "add_refused"
         /\ experiments' = experiments
         /\ queue_order' = queue_order
         /\ queue_file' = queue_file)]_vars

\* An enqueue has just been refused for a submitter at the quota.
RefusedEnqueueWitness ==
  /\ lastOp.op = "add_refused"
  /\ UserLoad(experiments, "u1") >= max_experiments_per_user
  /\ queue_file.exists

\* ---------------------------------------------------------------------- C5
\* Cancel has succeeded on id while it was Running: the job is Cancelled and
\* has a started_at.
CancelledRunning(id) ==
  /\ id \in DOMAIN experiments
  /\ experiments[id].status = "CANCELLED"
  /\ experiments[id].started_at # None

\* C5: once cancel has succeeded on a Running job, every later status read
\* of the job reports Cancelled: the read reports the status field as it is
\* when the handler reads it, and the field of such a job stays Cancelled.
CancelledIsFinal ==
  [][/\ \A id \in Ids :
          CancelledRunning(id) => experiments'[id].status = "CANCELLED"
     /\ (ReadStatusAt("status") /\ lastOp' # lastOp)
          => lastOp'.answer.status = StatusValue(experiments[lastOp.id].status)]_vars

\* ---------------------------------------------------------------------- C6
\* C6: when the cancel handler has returned success for a Running job (the
\* job is Cancelled and has a started_at), a stop request for that job has
\* been sent to the node.
CancelSendsStop ==
  \A id \in DOMAIN experiments :
    (Status(id) = "CANCELLED" /\ experiments[id].started_at # None)
    => <<"stop", id>> \in node_calls

\* ---------------------------------------------------------------------- C7
\* C7: for every job, created_at <= started_at, created_at <= completed_at
\* and started_at <= completed_at, whenever the timestamps compared are set.
TimestampsOrdered ==
  \A id \in DOMAIN experiments :
    LET e == experiments[id]
    IN /\ e.started_at # None => e.created_at <= e.started_at[1]
       /\ e.completed_at # None => e.created_at <= e.completed_at[1]
       /\ (e.started_at # None /\ e.completed_at # None)
            => e.started_at[1] <= e.completed_at[1]

\* A job created, started and completed at three different times.
TimestampsOrderedWitness ==
  \E id \in DOMAIN experiments :
    LET e == experiments[id]
    IN /\ e.started_at # None /\ e.completed_at # None
       /\ e.created_at < e.started_at[1]
       /\ e.started_at[1] < e.completed_at[1]

\* ---------------------------------------------------------------------- C8
\* C8: for any active job id and any pos >= 0, after reorder(id, pos) returns
\* true the active-job list of queue_snapshot() has id at index
\* min(pos, len - 1), len being the length of that list.
ReorderPlacesInSnapshot ==
  \A id \in DOMAIN experiments, pos \in 0..MaxJobs :
    LET r == reorder_experiment(experiments, queue_order, id, pos)
        queue == get_queue_status(r.experiments, r.queue_order).queue
    IN (Status(id) \in ActiveStatuses /\ r.ret)
       => queue[Min(pos, Len(queue) - 1) + 1].experiment_id = id

\* ---------------------------------------------------------------------- C9
\* C9: pause(id) on a Queued job and then resume(id) both return true and
\* give back the job map and the order sequence as they were, the job being
\* Queued; the paused job is not what next_runnable() returns, and
\* next_runnable() never returns a Paused job.
PauseResumeRestores ==
  /\ \A id \in DOMAIN experiments :
       Status(id) = "QUEUED" =>
         LET p == pause_experiment(experiments, queue_order, id)
             r == resume_experiment(p.experiments, p.queue_order, id)
         IN /\ p.ret /\ r.ret
            /\ p.experiments[id].status = "PAUSED"
            /\ get_next_experiment(p.experiments, p.queue_order).value # Some(id)
            /\ r.experiments = experiments
            /\ r.queue_order = queue_order
            /\ r.experiments[id].status = "QUEUED"
  /\ LET g == get_next_experiment(experiments, queue_order)
     IN g.value # None => Status(g.value[1]) # "PAUSED"

\* resume(id) has just followed pause(id) on a job that is not the last of
\* the order; the job is Queued again.
PauseResumeWitness ==
  /\ lastOp.op = "pause_resume"
  /\ Status(lastOp.id) = "QUEUED"
  /\ Len(queue_order) >= 2
  /\ queue_order[Len(queue_order)] # lastOp.id

\* --------------------------------------------------------------------- C10
\* The times at which a restarted hub can load the file.
LoadTimes == {clock + k * TickHours : k \in 0..MaxTicks}

\* No terminal job was completed more than the retention window before now.
NoTerminalJobOlderThanWindow(now) ==
  \A id \in DOMAIN experiments :
    (Status(id) \in TerminalStatuses /\ experiments[id].completed_at # None)
    => experiments[id].completed_at[1] >= now - RETENTION_HOURS

\* C10: when no terminal job is older than the retention window, saving the
\* state and loading it in a fresh QueueManager gives the same job map (ids
\* and every field) and the same order sequence.
SaveLoadRoundTrip ==
  \A now \in LoadTimes :
    NoTerminalJobOlderThanWindow(now) =>
      LET l == load_queue(save_queue(experiments, queue_order), now)
      IN /\ l.experiments = experiments
         /\ l.queue_order = queue_order

\* The hub has just restarted and loaded a job that was cancelled before it
\* started, a job that ran to its end, in an order that is not the order of
\* submission.
SaveLoadRoundTripWitness ==
  /\ lastOp.op = "restart"
  /\ \E a, b \in DOMAIN experiments :
       /\ Status(a) = "CANCELLED" /\ experiments[a].started_at = None
       /\ Status(b) \in {"COMPLETED", "FAILED"} /\ experiments[b].started_at # None
       /\ experiments[b].exit_code # None
  /\ queue_order = <<2, 1>>

\* --------------------------------------------------------------------- C11
\* Hours since the job ended, at time now.
Age(id, now) == now - experiments[id].completed_at[1]

\* The jobs a sweep at time now is to remove: no longer active, and ended
\* more than the retention window ago.
OldTerminal(now) ==
  {id \in DOMAIN experiments :
     /\ Status(id) \notin ActiveStatuses
     /\ experiments[id].completed_at # None
     /\ Age(id, now) > RETENTION_HOURS}

CancelContract ==
  \A id \in Ids :
    LET r == cancel_experiment(experiments, queue_order, id, clock)
    IN /\ r.ret <=> (id \in DOMAIN experiments /\ Status(id) \in {"QUEUED", "RUNNING"})
       /\ r.queue_order = queue_order
       /\ r.ret =>
            r.experiments = [experiments EXCEPT ![id].status = "CANCELLED",
                                                ![id].completed_at = Some(clock)]
       /\ ~r.ret => (r.experiments = experiments /\ ~r.saved)

\* cancel has just succeeded on a running job, some time after the job was
\* created, while another job is Completed.
CancelContractWitness ==
  /\ lastOp.op = "cancel"
  /\ Status(lastOp.id) = "CANCELLED"
  /\ experiments[lastOp.id].started_at # None
  /\ experiments[lastOp.id].completed_at = Some(clock)
  /\ clock > experiments[lastOp.id].created_at
  /\ \E other \in DOMAIN experiments : Status(other) = "COMPLETED"

\* --------------------------------------------------------------------- C13
\* The scenario's states.  A is the first job submitted (id 1), B the second
\* (id 2); nothing has been started yet when node_calls is empty.
TwoEnqueued ==
  /\ issued = 2 /\ DOMAIN experiments = {1, 2}
  /\ Status(1) = "QUEUED" /\ Status(2) = "QUEUED"
  /\ queue_order = <<1, 2>> /\ node_calls = {} /\ pc = "sleep"

BMovedToFront ==
  /\ issued = 2 /\ DOMAIN experiments = {1, 2}
  /\ Status(1) = "QUEUED" /\ Status(2) = "QUEUED"
  /\ queue_order = <<2, 1>> /\ node_calls = {}

\* reorder(B, 0) after enqueue A, enqueue B: B is at position 1, A at 2.
ReorderPutsBFirst ==
  TwoEnqueued =>
    LET r == reorder_experiment(experiments, queue_order, 2, 0)
    IN /\ r.ret
       /\ get_experiment_status(r.experiments, r.queue_order, 2)[1].queue_position = Some(1)
       /\ get_experiment_status(r.experiments, r.queue_order, 1)[1].queue_position = Some(2)

\* The worker's steps on the scenario, first being the job the first tick
\* starts and second the other one: the tick after the reorder picks and
\* starts first, second staying Queued; exit code 0 makes first Completed;
\* the following tick picks second.
ScenarioRuns(first, second) ==
  /\ (BMovedToFront /\ pc = "sleep" /\ pc' = "start") => next_exp' = Some(first)
  /\ (BMovedToFront /\ pc = "start" /\ next_exp = Some(first) /\ pc' = "post")
       => (/\ experiments'[first].status = "RUNNING"
           /\ experiments'[second].status = "QUEUED")
  /\ (/\ issued = 2 /\ queue_order = <<2, 1>>
      /\ pc = "forward" /\ next_exp = Some(first)
      /\ Status(first) = "RUNNING" /\ Status(second) = "QUEUED"
      /\ pc' = "sleep" /\ experiments'[first].exit_code = Some(0))
       => experiments'[first].status = "COMPLETED"
  /\ (/\ issued = 2 /\ queue_order = <<2, 1>>
      /\ Status(first) = "COMPLETED" /\ Status(second) = "QUEUED"
      /\ pc = "sleep" /\ pc' = "start")
       => next_exp' = Some(second)

\* C13 as stated: after enqueue A, enqueue B and reorder(B, 0), B is at
\* position 1 and A at position 2; the next worker tick starts A (A Running,
\* B Queued); exit code 0 for A makes A Completed; the following tick
\* starts B.
ScenarioStartsA == [][ReorderPutsBFirst /\ ScenarioRuns(1, 2)]_vars

\* C13 amended: after enqueue A, enqueue B and reorder(B, 0), B is at
\* position 1 and A at position 2; the next worker tick starts B (B Running,
\* A Queued); exit code 0 for B makes B Completed; the following tick
\* starts A.
ScenarioStartsB == [][ReorderPutsBFirst /\ ScenarioRuns(2, 1)]_vars

\* The scenario has run to its end: B completed with exit code 0 and A is
\* being run.
ScenarioStartsBWitness ==
  /\ issued = 2 /\ queue_order = <<2, 1>>
  /\ Status(2) = "COMPLETED" /\ experiments[2].exit_code = Some(0)
  /\ Status(1) = "RUNNING"
  /\ pc = "forward" /\ next_exp = Some(1)
  /\ node_calls = {<<"start", 1>>, <<"start", 2>>}

\* --------------------------------------------------------------------- C14
\* The number of Queued or Paused jobs among the entries of an order
\* sequence, counted entry by entry.
QueuedOrPausedIn(exps, order) ==
  Cardinality({i \in 1..Len(order) : exps[order[i]].status \in {"QUEUED", "PAUSED"}})

\* C14: a successful enqueue (a step that leaves lastOp at "add") creates a
\* job under an id the map did not hold, with status Queued, appended at the
\* tail of the order sequence, every other job and entry staying as it was;
\* the position it returns is the number of Queued or Paused jobs at or
\* before the new job in the order sequence.
EnqueueContract ==
  [][lastOp'.op = "add" =>
       LET id == lastOp'.id
           r == add_experiment(experiments, queue_order, "u1",
                               experiments'[id].script_content, id, clock)
       IN /\ id \notin DOMAIN experiments
          /\ DOMAIN experiments' = DOMAIN experiments \cup {id}
          /\ \A other \in DOMAIN experiments : experiments'[other] = experiments[other]
          /\ experiments'[id].status = "QUEUED"
          /\ queue_order' = Append(queue_order, id)
          /\ r.ret.success
          /\ r.experiments = experiments' /\ r.queue_order = queue_order'
          /\ r.ret.experiment_id = id
          /\ r.ret.queue_position = QueuedOrPausedIn(experiments', queue_order')]_vars

\* A job has just been enqueued behind a Completed job and a Paused job that
\* are still in the order sequence: its position is 2, the order's length 3.
EnqueueContractWitness ==
  /\ lastOp.op = "add"
  /\ Len(queue_order) = 3
  /\ queue_order[3] = lastOp.id
  /\ \E a, b \in DOMAIN experiments : Status(a) = "COMPLETED" /\ Status(b) = "PAUSED"
  /\ QueuedOrPausedIn(experiments, queue_order) = 2

\* --------------------------------------------------------------------- C15
\* C15: every id in the order sequence is a key of the job map, so
\* get_next_experiment's lookup never raises; and a retention sweep at any
\* time leaves no id in the order whose record it deleted.
OrderIdsHaveRecords ==
  /\ Elems(queue_order) \subseteq DOMAIN experiments
  /\ ~get_next_experiment(experiments, queue_order).raised
  /\ \A now \in LoadTimes :
       LET c == cleanup_old_experiments(experiments, queue_order, now)
       IN /\ Elems(c.queue_order) \subseteq DOMAIN c.experiments
          /\ ~get_next_experiment(c.experiments, c.queue_order).raised

\* After a sweep deleted a job, the worker has looked through the order,
\* past a terminal job that is still in it, and picked a queued job.
OrderIdsHaveRecordsWitness ==
  /\ \E id \in 1..issued : id \notin DOMAIN experiments
  /\ pc = "start"
  /\ Len(queue_order) >= 2
  /\ Status(queue_order[1]) \in TerminalStatuses
  /\ next_exp = Some(queue_order[2])

\* --------------------------------------------------------------------- C16
\* C16: start, cancel, pause, resume and run_now called with an unknown id
\* or on a job whose status is outside the operation's source states, and
\* reorder called with an id that is not in the order sequence, return false
\* and leave the job map, the order sequence and the file unchanged.
RefusedLeaves(r) ==
  /\ r.ret = FALSE
  /\ r.experiments = experiments
  /\ r.queue_order = queue_order
  /\ ~r.saved

InSourceStates(id, sources) == id \in DOMAIN experiments /\ Status(id) \in sources

BooleanOperationsFailClosed ==
  \A id \in Ids :
    /\ ~InSourceStates(id, {"QUEUED"})
         => RefusedLeaves(start_experiment(experiments, queue_order, id, clock))
    /\ ~InSourceStates(id, {"QUEUED", "RUNNING"})
         => RefusedLeaves(cancel_experiment(experiments, queue_order, id, clock))
    /\ ~InSourceStates(id, {"QUEUED"})
         => RefusedLeaves(pause_experiment(experiments, queue_order, id))
    /\ ~InSourceStates(id, {"PAUSED"})
         => RefusedLeaves(resume_experiment(experiments, queue_order, id))
    /\ ~InSourceStates(id, {"QUEUED", "PAUSED"})
         => RefusedLeaves(run_now(experiments, queue_order, id))
    /\ id \notin Elems(queue_order)
         => \A pos \in Positions :
              RefusedLeaves(reorder_experiment(experiments, queue_order, id, pos))

\* Two jobs have been submitted: the first has ended, the second is Paused;
\* id 3 is unknown.  Every one of the six operations has an id it refuses.
BooleanOperationsFailClosedWitness ==
  /\ issued = 2
  /\ DOMAIN experiments = {1, 2}
  /\ Status(1) \in {"COMPLETED", "FAILED"}
  /\ Status(2) = "PAUSED"
  /\ 3 \notin Elems(queue_order)

\* --------------------------------------------------------------------- C17
\* C17: when the process stops during a save and starts again, the manager
\* loads the complete state of before the interrupted call (which the file
\* held) or the complete state the call was saving; it does not start from
\* anything else, such as an empty queue.
SaveAtomicUnderCrash ==
  [][lastOp'.op = "crash" =>
       <<experiments', queue_order'>> \in
         {<<experiments, queue_order>>}
         \cup {<<o[1], o[2]>> : o \in {x \in HandlerOutcomes : x[3]}}]_vars

\* --------------------------------------------------------------------- C18
\* C18: the worker sends a job's payload to the node only when its
\* start_experiment has made the job Running (the job has a started_at);
\* and a job that was cancelled or paused before it was ever started (it
\* has no started_at) does not become Completed or Failed.
SubmitsOnlyStartedJobs ==
  [][\A id \in DOMAIN experiments \cap DOMAIN experiments' :
       /\ (<<"start", id>> \in node_calls' \ node_calls)
            => experiments[id].started_at # None
       /\ (Status(id) \in {"CANCELLED", "PAUSED"} /\ experiments[id].started_at = None)
            => experiments'[id].status \notin {"COMPLETED", "FAILED"}]_vars

\* --------------------------------------------------------------------- C19
\* A job is Running while no worker is running it: the worker is at the top
\* of its loop.  Only a restart that loaded a Running job leads here.
RunningAfterRestart(id) ==
  pc = "sleep" /\ id \in DOMAIN experiments /\ Status(id) = "RUNNING"

\* C19: after a restart that loaded a Running job, that job eventually
\* leaves Running, and if a job is Queued then, the worker eventually picks
\* a job to start (or no job is Queued any more).
RestartRecovers ==
  /\ \A id \in Ids :
       RunningAfterRestart(id) ~> (id \notin DOMAIN experiments \/ Status(id) # "RUNNING")
  /\ ((\E id \in Ids : RunningAfterRestart(id))
      /\ (\E q \in DOMAIN experiments : Status(q) = "QUEUED"))
       ~> (pc = "start" \/ ~(\E q \in DOMAIN experiments : Status(q) = "QUEUED"))

\* --------------------------------------------------------------------- C20
\* The sandbox of a job the worker submitted may still be running:
\* forward_experiment returned for it without a terminal status from the
\* node, and no stop request has been sent.
MayStillRun(exps, calls, id) ==
  /\ <<"start", id>> \in calls
  /\ id \in DOMAIN exps
  /\ exps[id].error_message \in {Some(TimeoutMessage), Some(RequestFailedMessage)}
  /\ <<"stop", id>> \notin calls

\* C20: when the worker submits a job to the node, no job it submitted
\* before has a sandbox that may still be running.
SubmitsAfterSandboxEnded ==
  [][\A id \in Ids :
       (<<"start", id>> \in node_calls' \ node_calls)
       => \A other \in Ids \ {id} : ~MayStillRun(experiments, node_calls, other)]_vars

\* --------------------------------------------------------------------- C21
\* C21: every read of the job map or the order sequence is made under the
\* lock: a status read, a per-submitter listing or a snapshot by a handler is
\* never made while the worker is between two assignments of
\* start_experiment or complete_experiment, and the worker's running check
\* is never made while a handler is between two assignments of
\* add_experiment or cancel_experiment.
ReadsUnderLock ==
  [][/\ (lastOp' # lastOp
         /\ lastOp'.op \in {"status_mid", "status_read", "user_read", "queue_read"})
        => ~WorkerMidMutation
     /\ (pc = "sleep" /\ pc' = "peek") => ~HandlerMidMutation]_vars

\* --------------------------------------------------------------------- C22
\* The arguments complete is tried with.
ExitCodes == {Some(0), Some(1), None}
ErrorMessages == {None, Some("failed")}

\* The fields of a job that complete does not write.
KeptByComplete(e) ==
  <<e.experiment_id, e.user_session_id, e.script_content, e.created_at,
    e.started_at, e.priority>>

\* C22: complete(id, exit_code, error_message) on an existing job, whatever
\* its status, sets status Completed when exit_code is 0 and Failed otherwise
\* and overwrites completed_at, exit_code and error_message, leaving the
\* job's other fields, the other jobs and the order as they were; a second
\* complete overwrites the first; on an absent id nothing changes.
CompleteOverwrites ==
  \A id \in Ids, exit_code \in ExitCodes, error_message \in ErrorMessages :
    LET r == complete_experiment(experiments, queue_order, id, exit_code, error_message, clock)
    IN IF id \in DOMAIN experiments
       THEN /\ r.experiments[id].status =
                 (IF exit_code = Some(0) THEN "COMPLETED" ELSE "FAILED")
            /\ r.experiments[id].completed_at = Some(clock)
            /\ r.experiments[id].exit_code = exit_code
            /\ r.experiments[id].error_message = error_message
            /\ KeptByComplete(r.experiments[id]) = KeptByComplete(experiments[id])
            /\ DOMAIN r.experiments = DOMAIN experiments
            /\ \A other \in DOMAIN experiments \ {id} :
                 r.experiments[other] = experiments[other]
            /\ r.queue_order = queue_order
            /\ r.saved
            /\ \A second \in ExitCodes :
                 LET r2 == complete_experiment(r.experiments, r.queue_order, id,
                                               second, None, clock)
                 IN /\ r2.experiments[id].status =
                         (IF second = Some(0) THEN "COMPLETED" ELSE "FAILED")
                    /\ r2.experiments[id].exit_code = second
                    /\ r2.experiments[id].error_message = None
       ELSE /\ r.experiments = experiments
            /\ r.queue_order = queue_order
            /\ ~r.saved

\* The worker has completed, some time after its creation, a job that was
\* never started: it was paused or cancelled between the worker's peek and
\* its start_experiment call.
CompleteOverwritesWitness ==
  /\ pc = "sleep"
  /\ \E id \in DOMAIN experiments :
       /\ Status(id) \in {"COMPLETED", "FAILED"}
       /\ experiments[id].started_at = None
       /\ experiments[id].exit_code # None
       /\ experiments[id].completed_at = Some(clock)
       /\ clock > experiments[id].created_at

\* --------------------------------------------------------------------- C23
\* The places of the order sequence that hold a Queued job.
QueuedPlaces == {i \in 1..Len(queue_order) : Status(queue_order[i]) = "QUEUED"}

\* The first Queued job of the order sequence, or None.
FirstQueued ==
  IF QueuedPlaces = {} THEN None
  ELSE Some(queue_order[CHOOSE i \in QueuedPlaces : \A j \in QueuedPlaces : i <= j])

\* C23: get_next_experiment returns the first job of the order sequence
\* whose status is Queued, or None when there is none, and does not raise;
\* the worker's peek leaves the job map, the order sequence and the file as
\* they were and takes that job.
NextRunnableIsFirstQueued ==
  /\ [](/\ ~get_next_experiment(experiments, queue_order).raised
        /\ get_next_experiment(experiments, queue_order).value = FirstQueued)
  /\ [][(pc = "sleep" /\ pc' = "start")
          => (/\ next_exp' = FirstQueued
              /\ experiments' = experiments
              /\ queue_order' = queue_order
              /\ queue_file' = queue_file)]_vars

\* The worker has picked the third job of the order, past a Paused job and a
\* terminal job.
NextRunnableWitness ==
  /\ pc = "start"
  /\ Len(queue_order) = 3
  /\ next_exp = Some(queue_order[3])
  /\ Status(queue_order[1]) = "PAUSED"
  /\ Status(queue_order[2]) \in TerminalStatuses

\* --------------------------------------------------------------------- C24
\* C24: start(id) on a Queued job returns true, sets the job Running with
\* started_at the current time, and leaves every other field, every other
\* job and the order sequence as they were; it does so whether or not
\* another job is Running.
StartContract ==
  \A id \in DOMAIN experiments :
    Status(id) = "QUEUED" =>
      LET r == start_experiment(experiments, queue_order, id, clock)
      IN /\ r.ret
         /\ r.experiments = [experiments EXCEPT ![id].status = "RUNNING",
                                                 ![id].started_at = Some(clock)]
         /\ r.queue_order = queue_order

\* The worker has started a job, some time after its creation, and waits for
\* its end while another job is Queued: start on that one would succeed.
StartContractWitness ==
  /\ pc = "forward"
  /\ Status(next_exp[1]) = "RUNNING"
  /\ experiments[next_exp[1]].started_at = Some(clock)
  /\ clock > experiments[next_exp[1]].created_at
  /\ \E other \in DOMAIN experiments : Status(other) = "QUEUED"

\* --------------------------------------------------------------------- C25
\* s without its entries equal to x.
Without(s, x) == ListFilter(s, Elems(s) \ {x})

\* C25: run_now(id) on a Queued or Paused job returns true, leaves the job
\* Queued and first in the order sequence, the other ids keeping their
\* relative order and the other jobs their records, and the job is then what
\* get_next_experiment returns; on any other job it returns false and
\* changes nothing.
RunNowContract ==
  \A id \in DOMAIN experiments :
    LET r == run_now(experiments, queue_order, id)
    IN IF Status(id) \in {"QUEUED", "PAUSED"}
       THEN /\ r.ret
            /\ r.experiments = [experiments EXCEPT ![id].status = "QUEUED"]
            /\ Len(r.queue_order) = Len(queue_order)
            /\ r.queue_order[1] = id
            /\ Tail(r.queue_order) = Without(queue_order, id)
            /\ get_next_experiment(r.experiments, r.queue_order).value = Some(id)
       ELSE /\ r.ret = FALSE
            /\ r.experiments = experiments
            /\ r.queue_order = queue_order

\* run_now has just moved the third job submitted in front of the two
\* others.
RunNowContractWitness ==
  /\ lastOp = [op |-> "run_now", id |-> 3]
  /\ queue_order = <<3, 1, 2>>
  /\ Status(3) = "QUEUED"
  /\ \E other \in {1, 2} : Status(other) \in {"RUNNING", "COMPLETED", "FAILED"}

\* --------------------------------------------------------------------- C26
\* C26: reorder(id, p) with id in the order sequence returns true for every
\* p (negative and oversized included); the new order has the same length n
\* and the same ids, id at index max(0, min(p, n - 1)), the other ids in
\* their previous relative order; no job changes.
ReorderContract ==
  \A id \in Elems(queue_order), p \in Positions :
    LET r == reorder_experiment(experiments, queue_order, id, p)
        n == Len(queue_order)
    IN /\ r.ret
       /\ Len(r.queue_order) = n
       /\ Elems(r.queue_order) = Elems(queue_order)
       /\ r.queue_order[Max(0, Min(p, n - 1)) + 1] = id
       /\ Without(r.queue_order, id) = Without(queue_order, id)
       /\ r.experiments = experiments

\* reorder has just moved the first job submitted to the end of an order of
\* three.
ReorderContractWitness ==
  /\ lastOp = [op |-> "reorder", id |-> 1]
  /\ queue_order = <<2, 3, 1>>

\* --------------------------------------------------------------------- C27
\* The number of Queued or Paused jobs at or before id in the order.
ActivePosition(id) ==
  Cardinality({i \in 1..Len(queue_order) :
                 /\ Status(queue_order[i]) \in {"QUEUED", "PAUSED"}
                 /\ i <= ListIndex(queue_order, id) + 1})

\* C27: the queue position a status read takes for a Queued job is the
\* number of Queued or Paused jobs at or before it in the order sequence
\* (what enqueue returns for a job it has just added); for a job that it
\* finds not Queued no position is reported.
StatusPositionCountsActive ==
  [][(lastOp.op = "status_mid" /\ lastOp' # lastOp) =>
       /\ (lastOp.at = "index" /\ Status(lastOp.id) = "QUEUED")
            => lastOp'.answer.queue_position = Some(ActivePosition(lastOp.id))
       /\ (lastOp.at = "test" /\ Status(lastOp.id) # "QUEUED")
            => (lastOp'.at = "status" /\ lastOp'.answer.queue_position = None)]_vars

\* --------------------------------------------------------------------- C28
\* The ids of the active list of a snapshot.
SnapshotIds(q) == [i \in 1..Len(q.queue) |-> q.queue[i].experiment_id]

JobsWithStatus(st) == {id \in DOMAIN experiments : Status(id) = st}

\* C28: get_queue_status returns the numbers of Queued, Running and Paused
\* jobs of the map; its list holds each job in one of these statuses once,
\* no other job, in the order of the order sequence, with the job's own
\* submitter, status and creation time; its length is the sum of the three
\* counts.
SnapshotContract ==
  LET q == get_queue_status(experiments, queue_order)
      ids == SnapshotIds(q)
  IN /\ q.total_queued = Cardinality(JobsWithStatus("QUEUED"))
     /\ q.total_running = Cardinality(JobsWithStatus("RUNNING"))
     /\ q.total_paused = Cardinality(JobsWithStatus("PAUSED"))
     /\ Elems(ids) = JobsWithStatus("QUEUED") \cup JobsWithStatus("RUNNING")
                       \cup JobsWithStatus("PAUSED")
     /\ Len(ids) = Cardinality(Elems(ids))
     /\ \A i, j \in 1..Len(ids) :
          i < j => ListIndex(queue_order, ids[i]) < ListIndex(queue_order, ids[j])
     /\ \A i \in 1..Len(ids) :
          /\ q.queue[i].user_session_id = experiments[ids[i]].user_session_id
          /\ q.queue[i].status = StatusValue(Status(ids[i]))
          /\ q.queue[i].created_at = isoformat(experiments[ids[i]].created_at)
     /\ Len(q.queue) = q.total_queued + q.total_running + q.total_paused

\* A terminal job stands first in the order, before a Paused job and a
\* Running job: the snapshot lists two of the three ordered ids.
SnapshotContractWitness ==
  /\ Len(queue_order) = 3
  /\ Status(queue_order[1]) \in TerminalStatuses
  /\ Status(queue_order[2]) = "PAUSED"
  /\ Status(queue_order[3]) = "RUNNING"
  /\ Len(get_queue_status(experiments, queue_order).queue) = 2

\* --------------------------------------------------------------------- C29
\* C29: in a hub that is not restarted, a terminal job whose completed_at
\* has fallen behind the retention cutoff is eventually removed from the job
\* map and from the order sequence.
OldTerminalEventuallyPurged ==
  \A id \in Ids :
    (id \in OldTerminal(clock))
      ~> (id \notin DOMAIN experiments /\ id \notin Elems(queue_order))

\* --------------------------------------------------------------------- C30
\* C30: the poll loop makes at most max_polls polls and the worker gets out
\* of forward_experiment; when the loop ends at max_polls the worker marks
\* the job Failed, with an exit code that is set and not 0 and as
\* error_message the timeout message, which forward_experiment returns for
\* no other outcome.
TimeoutFailsJob ==
  /\ [](pc = "forward" => Polls <= max_polls)
  /\ [][(pc = "forward" /\ Polls = max_polls /\ pc' = "sleep")
          => (/\ experiments'[next_exp[1]].status = "FAILED"
              /\ experiments'[next_exp[1]].exit_code \notin {None, Some(0)}
              /\ experiments'[next_exp[1]].error_message = Some(TimeoutMessage)
              /\ experiments'[next_exp[1]].completed_at = Some(clock))]_vars
  /\ \A res \in ForwardResults \cup {RequestFailedResult} :
       res.error # Some(TimeoutMessage)
  /\ (pc = "forward") ~> (pc = "sleep")

\* A job has been failed by the timeout while another job waits.
TimeoutFailsJobWitness ==
  /\ pc = "sleep"
  /\ \E id \in DOMAIN experiments :
       /\ Status(id) = "FAILED"
       /\ experiments[id].error_message = Some(TimeoutMessage)
       /\ experiments[id].exit_code = Some(1)
       /\ experiments[id].started_at # None
  /\ \E other \in DOMAIN experiments : Status(other) = "QUEUED"

\* --------------------------------------------------------------------- C31
\* C31: for every job failed because the poll loop reached max_polls, a stop
\* request for that job has been sent to the node.
TimeoutSendsStop ==
  \A id \in DOMAIN experiments :
    (Status(id) = "FAILED" /\ experiments[id].error_message = Some(TimeoutMessage))
      => <<"stop", id>> \in node_calls

\* --------------------------------------------------------------------- C32
\* What forward_experiment returns when the node cannot be reached (or
\* answers the POST with an error status), and when the sandbox could not be
\* created.
BackendFailures == {RequestFailedResult, SandboxFailedResult}

\* A job the worker has failed for a backend failure.
FailedByBackend(id) ==
  /\ id \in DOMAIN experiments
  /\ Status(id) = "FAILED"
  /\ experiments[id].error_message \in {r.error : r \in BackendFailures}

\* C32: when forward_experiment returns a backend failure for a started job,
\* the worker's step leaves the job Failed with an error_message that is
\* neither absent nor empty; the worker never sleeps with a job Running; and
\* a job Queued after such a failure is taken up (or cancelled).
BackendFailureFailsJob ==
  /\ [](pc = "sleep" => ~AnyRunning(experiments))
  /\ [][\A res \in BackendFailures :
          (/\ pc = "forward"
           /\ Status(next_exp[1]) = "RUNNING"
           /\ WorkerComplete(res))
            => (/\ experiments'[next_exp[1]].status = "FAILED"
                /\ experiments'[next_exp[1]].error_message \notin {None, Some("")}
                /\ pc' = "sleep")]_vars
  /\ \A id \in Ids, later \in Ids :
       (FailedByBackend(id) /\ later \in DOMAIN experiments /\ Status(later) = "QUEUED")
         ~> (later \in DOMAIN experiments /\ Status(later) # "QUEUED")

\* The sandbox of job 1 could not be created, job 1 is Failed, and the worker
\* has started job 2.
BackendFailureFailsJobWitness ==
  /\ 2 \in DOMAIN experiments
  /\ Status(1) = "FAILED"
  /\ experiments[1].started_at # None
  /\ experiments[1].exit_code = None
  /\ experiments[1].error_message = Some("failed")
  /\ Status(2) = "RUNNING"

\* --------------------------------------------------------------------- C33
\* C33: the worker leaves its loop only at the loop test with the stop
\* signal set; an exception raised in a tick takes it to the backoff sleep
\* with the queue untouched, and from there, while the hub is not shut
\* down, to a new tick; it is never in the except clause with a job
\* Running, and no job stays Running for ever in a hub that is not shut
\* down.
WorkerSurvivesExceptions ==
  /\ [](pc = "backoff" => ~AnyRunning(experiments))
  /\ [][/\ (pc # "exited" /\ pc' = "exited") => (pc = "sleep" /\ StopSet)
        /\ (pc = "check" /\ pc' \notin {"check", "peek", "sleep", "ended"})
             => (pc' = "backoff" /\ UNCHANGED <<experiments, queue_order>>)
        /\ (pc = "backoff" /\ pc' \notin {"backoff", "ended"}) => pc' = "sleep"]_vars
  /\ (pc = "backoff") ~> (pc = "check" \/ StopSet)
  /\ \A id \in Ids :
       (id \in DOMAIN experiments /\ Status(id) = "RUNNING")
         ~> ((id \in DOMAIN experiments /\ Status(id) # "RUNNING") \/ StopSet)

\* The running check has raised while job 2 was being added, after the
\* worker had run job 1.
WorkerSurvivesExceptionsWitness ==
  /\ pc = "backoff"
  /\ 2 \in DOMAIN experiments
  /\ Status(1) \in {"COMPLETED", "FAILED"}
  /\ Status(2) = "QUEUED"

\* --------------------------------------------------------------------- C34
\* The step left the job map and the order sequence as the call r of the
\* operation with a successful save leaves them, and the caller got the
\* value r returns.
SameAs(r) ==
  /\ experiments' = r.experiments
  /\ queue_order' = r.queue_order
  /\ lastOp'.returned = Some(r.ret)

\* C34: a mutating operation whose save fails raises nothing, and leaves the
\* job map, the order sequence and the value returned as the operation with
\* a successful save does.
FailedSaveIsSilent ==
  [][("raised" \in DOMAIN lastOp') =>
      LET o == lastOp'
      IN /\ ~o.raised
         /\ o.op = "add_experiment" =>
              \E script \in Scripts :
                SameAs(add_experiment(experiments, queue_order, "u1", script,
                                      issued + 1, clock))
         /\ o.op = "cancel_experiment" =>
              SameAs(cancel_experiment(experiments, queue_order, o.id, clock))
         /\ o.op = "pause_experiment" =>
              SameAs(pause_experiment(experiments, queue_order, o.id))
         /\ o.op = "resume_experiment" =>
              SameAs(resume_experiment(experiments, queue_order, o.id))
         /\ o.op = "reorder_experiment" =>
              SameAs(reorder_experiment(experiments, queue_order, o.id, o.position))
         /\ o.op = "run_now" =>
              SameAs(run_now(experiments, queue_order, o.id))
         /\ o.op = "start_experiment" =>
              /\ pc' = "post"
              /\ SameAs(start_experiment(experiments, queue_order, o.id, clock))
         /\ o.op = "complete_experiment" =>
              /\ pc' = "sleep"
              /\ \E res \in ForwardResults :
                   SameAs(complete_experiment(experiments, queue_order, o.id,
                                              WorkerExitCode(res),
                                              WorkerErrorMessage(res), clock))]_vars

\* complete_experiment's save has just failed on a job whose start was
\* saved: the job is Completed in memory and Running in the file.
FailedSaveIsSilentWitness ==
  /\ "raised" \in DOMAIN lastOp
  /\ lastOp.op = "complete_experiment"
  /\ Status(lastOp.id) = "COMPLETED"
  /\ queue_file.exists
  /\ "torn" \notin DOMAIN queue_file
  /\ FileData(queue_file).experiments[lastOp.id].status = StatusValue("RUNNING")

\* --------------------------------------------------------------------- C35
\* The file is missing, or json.load or from_dict fails on it.
Unloadable(file) ==
  \/ ~file.exists
  \/ "torn" \in DOMAIN file
  \/ \E id \in DOMAIN file.experiments :
       from_dict_raises(FileData(file).experiments[id])

\* C35: a start of the hub on a missing or unparseable file (a torn file, or
\* one with a single malformed job record) brings the hub up with an empty
\* job map and an empty order sequence; after any start every id of the
\* order sequence has its record.
LoadStartsEmptyOnBadFile ==
  [][/\ (lastOp'.op = "restart" /\ Unloadable(queue_file))
          => (experiments' = <<>> /\ queue_order' = <<>> /\ pc' = "sleep")
     /\ (lastOp'.op = "crash")
          => (experiments' = <<>> /\ queue_order' = <<>> /\ pc' = "sleep")
     /\ (lastOp'.op \in {"restart", "crash"})
          => Elems(queue_order') \subseteq DOMAIN experiments']_vars

\* The hub has just started on a file in which one record of two is
\* malformed, and holds no job.
LoadStartsEmptyOnBadFileWitness ==
  /\ lastOp.op = "restart"
  /\ experiments = <<>>
  /\ queue_order = <<>>
  /\ queue_file.exists
  /\ "torn" \notin DOMAIN queue_file
  /\ Len(queue_file.queue_order) >= 2
  /\ \E bad, good \in DOMAIN queue_file.experiments :
       /\ from_dict_raises(FileData(queue_file).experiments[bad])
       /\ ~from_dict_raises(FileData(queue_file).experiments[good])

\* --------------------------------------------------------------------- C36
\* C36: no container is created to be removed by the runtime, and a
\* container leaves the runtime only by the remove call of the
\* run_experiment_container thread that created it, which comes after the
\* thread's attempt to capture the logs.
LogsBeforeRemoval ==
  /\ [](\A id \in DOMAIN docker : ~docker[id].auto_remove)
  /\ [][\A id \in DOMAIN docker :
          id \notin DOMAIN docker'
            => \E t \in DOMAIN run_pc :
                 /\ run_pc[t].id = id
                 /\ docker[id].owner = t
                 /\ run_pc[t].at = "remove"
                 /\ run_pc[t].logs_tried
                 /\ docker[id].state = "exited"]_vars

\* The sandbox of job 1 has ended with status 1, its logs were captured and
\* its container removed; the table has the exit code.
LogsBeforeRemovalWitness ==
  /\ ThreadAt(1, "done")
  /\ run_pc[1].id = 1
  /\ run_pc[1].logs_tried
  /\ 1 \notin DOMAIN docker
  /\ 1 \in DOMAIN containers
  /\ containers[1].status = "failed"
  /\ containers[1].exit_code = Some(1)

\* --------------------------------------------------------------------- C37
\* The sandbox of id is in the runtime and was made before the node's last
\* restart.
SandboxOutlivedRestart(id) == id \in DOMAIN docker /\ docker[id].owner = 0

\* C37: a status query for a job whose sandbox exists in the runtime, the
\* table having lost the job's entry in a restart of the node, is never
\* answered not found.
StatusSurvivesNodeRestart ==
  [][(/\ node_req' # node_req
      /\ node_req' # None
      /\ node_req'.op = "status"
      /\ node_req'.code = Some(404))
       => ~SandboxOutlivedRestart(node_req'.id)]_vars

\* --------------------------------------------------------------------- C38
\* C38: the order sequence has no id twice, and its ids are exactly the ids
\* of the job map.
OrderMatchesMap ==
  /\ \A i, j \in 1..Len(queue_order) : queue_order[i] = queue_order[j] => i = j
  /\ Elems(queue_order) = DOMAIN experiments

\* Three jobs were submitted, the first was purged by the sweep of a
\* restart, and the two left stand in the order against their submission.
OrderMatchesMapWitness ==
  /\ issued = 3
  /\ DOMAIN experiments = {2, 3}
  /\ queue_order = <<3, 2>>
  /\ Status(3) = "RUNNING"

\* --------------------------------------------------------------------- C39
\* C39: a job with an exit code is Completed or Failed; a Completed job has
\* exit code 0; a Failed job has an exit code, and it is not 0; a Queued,
\* Running, Paused or Cancelled job has none.
ExitCodeMatchesStatus ==
  \A id \in DOMAIN experiments :
    LET e == experiments[id]
    IN /\ e.exit_code # None => e.status \in {"COMPLETED", "FAILED"}
       /\ e.status = "COMPLETED" => e.exit_code = Some(0)
       /\ e.status = "FAILED" => e.exit_code \notin {None, Some(0)}
       /\ e.status \in {"QUEUED", "RUNNING", "PAUSED", "CANCELLED"}
            => e.exit_code = None

\* --------------------------------------------------------------------- C40
\* C40: with the worker scheduled, the backend answering and no restart, a
\* Queued job reaches Completed, Failed or Cancelled, unless it is paused.
QueuedJobEventuallyEnds ==
  \A id \in Ids :
    (id \in DOMAIN experiments /\ Status(id) = "QUEUED")
      ~> (/\ id \in DOMAIN experiments
          /\ Status(id) \in {"COMPLETED", "FAILED", "CANCELLED", "PAUSED"})

\* Job 3, moved behind a Paused job 1 and a finished job 2, is being run.
QueuedJobEventuallyEndsWitness ==
  /\ issued = 3
  /\ queue_order = <<1, 2, 3>>
  /\ Status(1) = "PAUSED"
  /\ Status(2) \in {"COMPLETED", "FAILED"}
  /\ Status(3) = "RUNNING"
  /\ pc = "forward"

====
